---------------------------- MODULE Spec2Model ----------------------------
(***************************************************************************)
(* A model of the schema-to-layout compiler of react-json-doc (JsonDoc).   *)
(*                                                                         *)
(* One render is modelled: the recursive walker `process` is run as an     *)
(* explicit stack machine over a schema document chosen in Init, and every *)
(* helper closure of JsonDoc (pushToken, indentedBlock, startNewSection,   *)
(* ...) is an operator over the render context they close over.            *)
(*                                                                         *)
(* JavaScript strings are sequences of one-character strings, so that      *)
(* join, trim, replace, JSON.stringify and RegExp search are computed.     *)
(* An optional value is a sequence of length 0 (absent) or 1.              *)
(***************************************************************************)
EXTENDS Integers, Sequences, FiniteSets, TLC

(***************************************************************************)
(* Bounds of the checked documents.                                        *)
(***************************************************************************)
\* the largest number of example items of a generated array
MaxItems == 2
\* the largest number of example keys of a generated pattern object
MaxKeys == 2

(***************************************************************************)
(* Strings.                                                                *)
(***************************************************************************)
Last(s) == s[Len(s)]

Front(s) == SubSeq(s, 1, Len(s) - 1)

RECURSIVE Join(_, _)
\* Array.prototype.join
Join(segs, sep) ==
  IF Len(segs) = 0 THEN <<>>
  ELSE IF Len(segs) = 1 THEN segs[1]
  ELSE segs[1] \o sep \o Join(Tail(segs), sep)

Whitespace == {" ", "\n", "\t"}

RECURSIVE TrimStart(_)
TrimStart(s) ==
  IF Len(s) > 0 /\ s[1] \in Whitespace THEN TrimStart(Tail(s)) ELSE s

RECURSIVE TrimEnd(_)
TrimEnd(s) ==
  IF Len(s) > 0 /\ s[Len(s)] \in Whitespace THEN TrimEnd(Front(s)) ELSE s

\* String.prototype.trim
Trim(s) == TrimEnd(TrimStart(s))

\* the positions at which pat occurs in s
Occurrences(s, pat) ==
  {i \in 1..(Len(s) - Len(pat) + 1) : SubSeq(s, i, i + Len(pat) - 1) = pat}

Min(S) == CHOOSE x \in S : \A y \in S : x <= y

\* String.prototype.replace(pat, by) with a string pattern: the first occurrence
ReplaceFirst(s, pat, by) ==
  IF Occurrences(s, pat) = {} THEN s
  ELSE LET i == Min(Occurrences(s, pat))
       IN SubSeq(s, 1, i - 1) \o by \o SubSeq(s, i + Len(pat), Len(s))

Digit(d) ==
  CASE d = 0 -> "0" [] d = 1 -> "1" [] d = 2 -> "2" [] d = 3 -> "3" [] d = 4 -> "4"
    [] d = 5 -> "5" [] d = 6 -> "6" [] d = 7 -> "7" [] d = 8 -> "8" [] d = 9 -> "9"

RECURSIVE Digits(_)
Digits(n) == IF n < 10 THEN <<Digit(n)>> ELSE Digits(n \div 10) \o <<Digit(n % 10)>>

RECURSIVE Escape(_)
Escape(s) ==
  IF Len(s) = 0 THEN <<>>
  ELSE (CASE s[1] = "\"" -> <<"\\", "\"">>
          [] s[1] = "\\" -> <<"\\", "\\">>
          [] s[1] = "\n" -> <<"\\", "n">>
          [] OTHER -> <<s[1]>>) \o Escape(Tail(s))

(***************************************************************************)
(* The regular expressions of patternProperties: an optional leading ^,    *)
(* then literal characters and . (any character), then an optional        *)
(* trailing $.  key.match(new RegExp(pattern)) searches the key.           *)
(***************************************************************************)
RegexAnchoredStart(p) == Len(p) > 0 /\ p[1] = "^"

RegexAnchoredEnd(p) == Len(p) > 0 /\ p[Len(p)] = "$"

RegexBody(p) ==
  SubSeq(p, IF RegexAnchoredStart(p) THEN 2 ELSE 1,
            IF RegexAnchoredEnd(p) THEN Len(p) - 1 ELSE Len(p))

RegexMatchAt(body, key, i) ==
  /\ i + Len(body) - 1 <= Len(key)
  /\ \A j \in 1..Len(body) : body[j] = "." \/ body[j] = key[i + j - 1]

RegexMatch(pattern, key) ==
  LET body == RegexBody(pattern)
  IN \E i \in 1..(Len(key) + 1) :
       /\ RegexMatchAt(body, key, i)
       /\ RegexAnchoredStart(pattern) => i = 1
       /\ RegexAnchoredEnd(pattern) => i + Len(body) - 1 = Len(key)

(***************************************************************************)
(* JSON values.  k is the kind: undefined, null, number, string, boolean,  *)
(* array or object.                                                        *)
(***************************************************************************)
Undefined == [k |-> "undefined", n |-> 0, s |-> <<>>, b |-> FALSE, items |-> <<>>, fields |-> <<>>]

VNull == [Undefined EXCEPT !.k = "null"]

VNum(n) == [Undefined EXCEPT !.k = "number", !.n = n]

VStr(s) == [Undefined EXCEPT !.k = "string", !.s = s]

VBool(b) == [Undefined EXCEPT !.k = "boolean", !.b = b]

VArr(items) == [Undefined EXCEPT !.k = "array", !.items = items]

\* fields: a sequence of [name, val], in insertion order
VObj(fields) == [Undefined EXCEPT !.k = "object", !.fields = fields]

IsDefined(v) == v.k # "undefined"

\* v ?? w
Coalesce(v, w) == IF v.k \in {"undefined", "null"} THEN w ELSE v

Truthy(v) ==
  CASE v.k \in {"undefined", "null"} -> FALSE
    [] v.k = "number" -> v.n # 0
    [] v.k = "string" -> Len(v.s) > 0
    [] v.k = "boolean" -> v.b
    [] OTHER -> TRUE

\* value !== null ? typeof value : `null`
ValueType(v) ==
  CASE v.k = "null" -> "null"
    [] v.k \in {"array", "object"} -> "object"
    [] OTHER -> v.k

\* v[name], for a v that is neither null nor undefined
GetField(v, name) ==
  IF v.k = "object" /\ \E i \in 1..Len(v.fields) : v.fields[i].name = name
  THEN v.fields[CHOOSE i \in 1..Len(v.fields) : v.fields[i].name = name].val
  ELSE Undefined

\* JSON.stringify of a scalar
Stringify(v) ==
  CASE v.k = "null" -> <<"n", "u", "l", "l">>
    [] v.k = "number" ->
         IF v.n < 0 THEN <<"-">> \o Digits(0 - v.n) ELSE Digits(v.n)
    [] v.k = "boolean" ->
         IF v.b THEN <<"t", "r", "u", "e">> ELSE <<"f", "a", "l", "s", "e">>
    [] v.k = "string" -> <<"\"">> \o Escape(v.s) \o <<"\"">>
    [] OTHER -> <<>>

(***************************************************************************)
(* Schema nodes.  type is the list of declared kinds: one kind when        *)
(* typeIsArray is FALSE (none when `type` is absent), the kinds of the     *)
(* type array otherwise.  properties and patternProperties are sequences   *)
(* of [name, node] in declaration order (Object.entries).                  *)
(***************************************************************************)
EmptyNode ==
  [typeIsArray |-> FALSE, type |-> <<>>, enum |-> <<>>, examples |-> <<>>,
   default |-> Undefined, title |-> Undefined, description |-> Undefined,
   properties |-> <<>>, patternProperties |-> <<>>,
   exampleKeys |-> <<>>, _exampleKeys |-> <<>>,
   items |-> <<>>, prefixItems |-> <<>>,
   exampleItems |-> Undefined, _exampleItems |-> Undefined,
   foldStyle |-> "undefined", ref |-> Undefined]

\* node.type === name
TypeIs(node, name) == ~node.typeIsArray /\ node.type = <<name>>

\* the element list of an array value (its length is 0 for any other value)
ItemsOf(v) == IF v.k = "array" THEN v.items ELSE <<>>

\* mutant: the spread is the other way round, the node's own examples win
forwardExample_KeepOwn(node, example) ==
  IF TypeIs(node, "array")
  THEN [node EXCEPT !.exampleItems = IF IsDefined(@) THEN @ ELSE example]
  ELSE [node EXCEPT !.examples = IF @ # <<>> THEN @ ELSE <<(<<example>>)>>]

forwardExample(node, example) ==
  IF TypeIs(node, "array")
  THEN [node EXCEPT !.exampleItems = example]
  ELSE [node EXCEPT !.examples = <<(<<example>>)>>]

\* node.examples?.[0]
FirstExample(node) ==
  IF Len(node.examples) = 1 /\ Len(node.examples[1]) > 0
  THEN node.examples[1][1] ELSE Undefined

\* mutant: the default is preferred to the example
getExample_DefaultFirst(node) ==
  IF IsDefined(node.default) THEN node.default ELSE FirstExample(node)

\* the value getExample returns; undefined when it throws
getExample(node) ==
  IF IsDefined(FirstExample(node)) THEN FirstExample(node) ELSE node.default

StrOf(v) == IF v.k = "string" THEN v.s ELSE <<>>

getDescription(node) ==
  Trim(StrOf(Coalesce(node.title, VStr(<<>>))) \o <<"\n", "\n">>
         \o StrOf(Coalesce(node.description, VStr(<<>>))))

\* the keys of pushByType
PushByType == {"null", "number", "boolean", "string"}

\* the `attr-name` / `string` / ... style category each push function asks for
StyleOf(valueType) ==
  CASE valueType = "null" -> "null"
    [] valueType = "number" -> "number"
    [] valueType = "boolean" -> "keyword"
    [] valueType = "string" -> "string"

(***************************************************************************)
(* The layout buffer and the render context.                               *)
(*                                                                         *)
(* A token carries, besides what the code stores (type, text, style,       *)
(* href), history fields written at the push and read by no operation:     *)
(*   addr    the tree address of the schema node instance it belongs to    *)
(*           (the child indexes from the root; the identifier, colon and   *)
(*           separators of child i of a container carry the child's)       *)
(*   role    own (bracket), key, value or sep                              *)
(*   fold    on an opening bracket, the container's foldStyle              *)
(*   owners  the sections of the described properties in progress          *)
(*   owner   the innermost of owners if no described property has opened   *)
(*           a section since, else 0                                       *)
(***************************************************************************)
TokenType == {"L_CURLY", "R_CURLY", "L_BRACKET", "R_BRACKET", "COMMA", "COLON", "PIPE", "NL", "SPACE"}

EmptyLine == [indent |-> 0, tokens |-> <<>>]

InitialSections ==
  <<[id |-> <<>>, header |-> <<>>, closed |-> FALSE, lines |-> <<EmptyLine>>]>>

NoHook == [armed |-> FALSE, foldStyle |-> "undefined", blk |-> 0, addr |-> <<>>]

NoError == [kind |-> "", type |-> <<>>, path |-> <<>>]

Token(c, type, text, style, href) ==
  [type |-> type, text |-> text, style |-> style, href |-> href,
   addr |-> c.g.addr, role |-> c.g.role, fold |-> c.g.fold,
   owners |-> [i \in 1..Len(c.descOpen) |-> c.descOpen[i].sec],
   owner |-> IF Len(c.descOpen) > 0 /\ ~Last(c.descOpen).nested
             THEN Last(c.descOpen).sec ELSE 0]

LastSection(c) == c.sections[Len(c.sections)]

\* mutant: the id is the path whether or not there is a header
startNewSection_AlwaysId(c, header) ==
  [c EXCEPT !.sections = Append(@,
     [id |-> <<Join(c.idSegments, <<".">>)>>,
      header |-> header,
      closed |-> FALSE,
      lines |-> <<EmptyLine>>])]

startNewSection(c, header) ==
  [c EXCEPT !.sections = Append(@,
     [id |-> IF header # <<>> THEN <<Join(c.idSegments, <<".">>)>> ELSE <<>>,
      header |-> header,
      closed |-> FALSE,
      lines |-> <<EmptyLine>>])]

\* mutant: the header test is dropped
closeSection_AnySection(c) ==
  [c EXCEPT !.sections[Len(c.sections)].closed = TRUE]

closeSection(c) ==
  IF LastSection(c).header # <<>>
  THEN [c EXCEPT !.sections[Len(c.sections)].closed = TRUE]
  ELSE c

getCurrentId(c) ==
  IF LastSection(c).closed THEN <<>> ELSE LastSection(c).id

\* mutant: every new line starts a section
startNewLine_AlwaysSection(c) ==
  startNewSection([c EXCEPT !.nnl = @ + 1], <<>>)

startNewLine(c) ==
  LET c1 == [c EXCEPT !.nnl = @ + 1]
  IN IF LastSection(c1).closed
     THEN startNewSection(c1, <<>>)
     ELSE [c1 EXCEPT !.sections[Len(c1.sections)].lines = Append(@, EmptyLine)]

\* mutant: the closed test is dropped
getIndentedLine_IgnoreClosed(c) ==
  LET n == Len(c.sections)
      m == Len(c.sections[n].lines)
  IN IF Len(c.sections[n].lines[m].tokens) = 0
     THEN [c EXCEPT !.sections[n].lines[m].indent = c.indentCount]
     ELSE c

\* mutant: the indent of an empty line is left as it was created
getIndentedLine_NoIndent(c) ==
  IF LastSection(c).closed THEN startNewSection(c, <<>>) ELSE c

\* the context after getIndentedLine; the line it returns is the last line
\* of the last section
getIndentedLine(c) ==
  LET c1 == IF LastSection(c).closed THEN startNewSection(c, <<>>) ELSE c
      n == Len(c1.sections)
      m == Len(c1.sections[n].lines)
  IN IF Len(c1.sections[n].lines[m].tokens) = 0
     THEN [c1 EXCEPT !.sections[n].lines[m].indent = c1.indentCount]
     ELSE c1

\* line.push(tok) on the line getIndentedLine returned
LinePush(c, tok) ==
  LET n == Len(c.sections)
      m == Len(c.sections[n].lines)
  IN [c EXCEPT !.sections[n].lines[m].tokens = Append(@, tok), !.ntok = @ + 1]

RECURSIVE pushToken(_, _)

\* mutant: the declared foldStyle is not read, the fold is always auto-detected
onTokenPushFn_IgnoreFoldStyle(c, h, tok) ==
  LET c1 == [c EXCEPT !.isEmpty[h.blk] = FALSE]
  IN IF tok # "L_BRACKET" /\ tok # "L_CURLY"
     THEN LET c2 == pushToken(c1, "NL")
          IN [c2 EXCEPT !.indentCount = @ + 1,
                        !.isInlineContext = Append(@, FALSE),
                        !.decisions = @ \cup {[addr |-> h.addr, inline |-> FALSE]}]
     ELSE [c1 EXCEPT !.isInlineContext = Append(@, TRUE),
                     !.decisions = @ \cup {[addr |-> h.addr, inline |-> TRUE]}]

\* mutant: a block fold raises the indent and starts no new line
onTokenPushFn_NoNewLine(c, h, tok) ==
  LET c1 == [c EXCEPT !.isEmpty[h.blk] = FALSE]
      effectiveFoldStyle ==
        IF h.foldStyle # "undefined"
        THEN h.foldStyle = "true"
        ELSE tok # "L_BRACKET" /\ tok # "L_CURLY"
  IN IF effectiveFoldStyle
     THEN [c1 EXCEPT !.indentCount = @ + 1,
                     !.isInlineContext = Append(@, FALSE),
                     !.decisions = @ \cup {[addr |-> h.addr, inline |-> FALSE]}]
     ELSE [c1 EXCEPT !.isInlineContext = Append(@, TRUE),
                     !.decisions = @ \cup {[addr |-> h.addr, inline |-> TRUE]}]

\* mutant: auto-detection keeps inline on an opening bracket only
onTokenPushFn_BracketOnly(c, h, tok) ==
  LET c1 == [c EXCEPT !.isEmpty[h.blk] = FALSE]
      effectiveFoldStyle ==
        IF h.foldStyle # "undefined"
        THEN h.foldStyle = "true"
        ELSE tok # "L_BRACKET"
  IN IF effectiveFoldStyle
     THEN LET c2 == pushToken(c1, "NL")
          IN [c2 EXCEPT !.indentCount = @ + 1,
                        !.isInlineContext = Append(@, FALSE),
                        !.decisions = @ \cup {[addr |-> h.addr, inline |-> FALSE]}]
     ELSE [c1 EXCEPT !.isInlineContext = Append(@, TRUE),
                     !.decisions = @ \cup {[addr |-> h.addr, inline |-> TRUE]}]

\* the closure indentedBlock stores in onTokenPush, called with the hook h
onTokenPushFn(c, h, tok) ==
  LET c1 == [c EXCEPT !.isEmpty[h.blk] = FALSE]
      effectiveFoldStyle ==
        IF h.foldStyle # "undefined"
        THEN h.foldStyle = "true"
        ELSE tok # "L_BRACKET" /\ tok # "L_CURLY"
  IN IF effectiveFoldStyle
     THEN LET c2 == pushToken(c1, "NL")
          IN [c2 EXCEPT !.indentCount = @ + 1,
                        !.isInlineContext = Append(@, FALSE),
                        !.decisions = @ \cup {[addr |-> h.addr, inline |-> FALSE]}]
     ELSE [c1 EXCEPT !.isInlineContext = Append(@, TRUE),
                     !.decisions = @ \cup {[addr |-> h.addr, inline |-> TRUE]}]

triggerPushFn(c, token) ==
  LET h == c.onTokenPush
      c1 == [c EXCEPT !.onTokenPush = NoHook]
  IN IF h.armed THEN onTokenPushFn(c1, h, token) ELSE c1

pushSyntaxToken(c, raw) ==
  LET c1 == triggerPushFn(c, "")
      c2 == getIndentedLine(c1)
  IN LinePush(c2, Token(c2, "syntax", <<raw>>, "punctuation", <<>>))

\* mutant: the two closing tokens are exchanged
pushToken_SwappedClosers(c, token) ==
  LET c1 == triggerPushFn(c, token)
  IN CASE token = "L_CURLY" -> pushSyntaxToken(c1, "{")
       [] token = "R_CURLY" -> pushSyntaxToken(c1, "]")
       [] token = "L_BRACKET" -> pushSyntaxToken(c1, "[")
       [] token = "R_BRACKET" -> pushSyntaxToken(c1, "}")
       [] token = "COMMA" -> pushSyntaxToken(c1, ",")
       [] token = "COLON" -> pushSyntaxToken(c1, ":")
       [] token = "PIPE" -> pushSyntaxToken(c1, "|")
       [] token = "SPACE" ->
            LET c2 == getIndentedLine(c1)
            IN LinePush(c2, Token(c2, "space", <<" ">>, "", <<>>))
       [] token = "NL" -> startNewLine(c1)
       [] OTHER -> [c1 EXCEPT !.error = [NoError EXCEPT !.kind = "UnsupportedToken"]]

pushToken(c, token) ==
  LET c1 == triggerPushFn(c, token)
  IN CASE token = "L_CURLY" -> pushSyntaxToken(c1, "{")
       [] token = "R_CURLY" -> pushSyntaxToken(c1, "}")
       [] token = "L_BRACKET" -> pushSyntaxToken(c1, "[")
       [] token = "R_BRACKET" -> pushSyntaxToken(c1, "]")
       [] token = "COMMA" -> pushSyntaxToken(c1, ",")
       [] token = "COLON" -> pushSyntaxToken(c1, ":")
       [] token = "PIPE" -> pushSyntaxToken(c1, "|")
       [] token = "SPACE" ->
            LET c2 == getIndentedLine(c1)
            IN LinePush(c2, Token(c2, "space", <<" ">>, "", <<>>))
       [] token = "NL" -> startNewLine(c1)
       [] OTHER -> [c1 EXCEPT !.error = [NoError EXCEPT !.kind = "UnsupportedToken"]]

pushIdentifier(c, name) ==
  LET c1 == triggerPushFn(c, "")
      id == getCurrentId(c1)
      c2 == getIndentedLine(c1)
      href == <<"#">> \o (IF id = <<>> THEN <<"n", "u", "l", "l">> ELSE id[1])
  IN LinePush(c2, Token(c2, "identifier", name, "attr-name", href))

\* pushNull, pushNumber, pushBoolean, pushString
pushLiteral(c, value) ==
  LET c1 == triggerPushFn(c, "")
      c2 == getIndentedLine(c1)
  IN LinePush(c2, Token(c2, "literal", Stringify(value), StyleOf(ValueType(value)), <<>>))

pushTyped(c, value) ==
  IF ValueType(value) \notin PushByType
  THEN [c EXCEPT !.error = [kind |-> "UnsupportedType",
                            type |-> <<ValueType(value)>>,
                            path |-> Join(c.idSegments, <<".">>)]]
  ELSE pushLiteral(c, value)

RefPrefix == <<"#", "/", "p", "r", "o", "p", "e", "r", "t", "i", "e", "s", "/">>

\* mutant: the prefix `#/properties/` is kept in the link
pushReference_KeepPrefix(c, node) ==
  LET c1 == triggerPushFn(c, "")
      c2 == getIndentedLine(c1)
      propertyName == StrOf(node.ref)
  IN LinePush(c2, Token(c2, "reference", propertyName, "attr-name", <<"#">> \o propertyName))

\* the push of pushReference; the read of data.properties[propertyName] that
\* precedes it is in the action PushReference
pushReference(c, node) ==
  LET c1 == triggerPushFn(c, "")
      c2 == getIndentedLine(c1)
      propertyName == ReplaceFirst(StrOf(node.ref), RefPrefix, <<>>)
  IN LinePush(c2, Token(c2, "reference", propertyName, "attr-name", <<"#">> \o propertyName))

(***************************************************************************)
(* The documents rendered.                                                 *)
(***************************************************************************)
Sa == <<"a">>

Sb == <<"b">>

Sq == <<"q">>

Foo == <<"f", "o", "o">>

Xyz == <<"x", "y", "z">>

Fx == <<"f", "x">>

DocText == <<"d", "o", "c">>

FoldStyles == {"undefined", "true", "false"}

Num(n) == [EmptyNode EXCEPT !.type = <<"number">>, !.examples = <<(<<VNum(n)>>)>>]

\* a string with a default and no examples
StrNode == [EmptyNode EXCEPT !.type = <<"string">>, !.default = VStr(<<"s">>)]

EnumNode ==
  [EmptyNode EXCEPT !.type = <<"string">>, !.enum = <<(<<VStr(<<"x">>), VStr(<<"y">>), VNum(3)>>)>>]

MixedNode ==
  [EmptyNode EXCEPT !.typeIsArray = TRUE, !.type = <<"number", "null">>,
                    !.examples = <<(<<VNull>>)>>]

\* a scalar with neither examples nor default
NoExampleNode == [EmptyNode EXCEPT !.type = <<"boolean">>]

UnsupportedNode == [EmptyNode EXCEPT !.type = <<"integer">>, !.examples = <<(<<VNum(1)>>)>>]

UnsupportedMixedNode ==
  [EmptyNode EXCEPT !.typeIsArray = TRUE, !.type = <<"number", "object">>,
                    !.examples = <<(<<VNum(1)>>)>>]

RefNode(name) == [EmptyNode EXCEPT !.ref = VStr(RefPrefix \o name)]

Described(node) == [node EXCEPT !.description = VStr(DocText)]

Titled(node) == [node EXCEPT !.title = VStr(<<"T">>)]

\* a description that trims to nothing
Blank(node) == [node EXCEPT !.description = VStr(<<" ", "\n">>)]

Arr(items, exampleItems, foldStyle) ==
  [EmptyNode EXCEPT !.type = <<"array">>, !.items = <<items>>,
                    !.exampleItems = VArr(exampleItems), !.foldStyle = foldStyle]

Obj(properties, foldStyle) ==
  [EmptyNode EXCEPT !.type = <<"object">>, !.properties = <<properties>>,
                    !.foldStyle = foldStyle]

WithExample(node, example) == [node EXCEPT !.examples = <<(<<example>>)>>]

Pat(exampleKeys, patternProperties, foldStyle) ==
  [EmptyNode EXCEPT !.type = <<"object">>, !.exampleKeys = <<exampleKeys>>,
                    !.patternProperties = <<patternProperties>>, !.foldStyle = foldStyle]

Prop(name, node) == [name |-> name, node |-> node]

Field(name, val) == [name |-> name, val |-> val]

Leaves == {Num(1), StrNode, EnumNode, MixedNode, NoExampleNode, UnsupportedNode, UnsupportedMixedNode}

\* the item schemas of the generated arrays, each with the example of item t
ItemKinds == {"scalar", "array", "object", "described"} \X FoldStyles

ItemNode(kind) ==
  CASE kind[1] = "scalar" -> Num(0)
    [] kind[1] = "array" -> Arr(Num(0), <<>>, kind[2])
    [] kind[1] = "object" -> Obj(<<Prop(Sa, Num(0))>>, kind[2])
    [] kind[1] = "described" -> Obj(<<Prop(Sa, Described(Num(0)))>>, kind[2])

ItemExample(kind, t) ==
  CASE kind[1] = "scalar" -> VNum(t)
    [] kind[1] = "array" -> VArr(<<VNum(t)>>)
    [] OTHER -> VObj(<<Field(Sa, VNum(t))>>)

ArrayDocs ==
  { Arr(ItemNode(kind), [t \in 1..k |-> ItemExample(kind, t)], f) :
      kind \in {x \in ItemKinds : x[1] \in {"scalar", "described"} => x[2] = "undefined"},
      k \in 0..MaxItems, f \in FoldStyles }

\* the other sources of the example items, prefixItems, and items that fail
ArrayVariants ==
  { [Arr(Num(0), <<>>, "undefined") EXCEPT
       !.exampleItems = Undefined, !.default = VArr(<<VNum(7), VNum(8)>>)],
    [Arr(Num(0), <<>>, "false") EXCEPT
       !.exampleItems = Undefined, !._exampleItems = VArr(<<VNum(5), VStr(Sa)>>),
       !.default = VArr(<<VNum(7)>>)],
    [Arr(Num(0), <<>>, "undefined") EXCEPT !.exampleItems = Undefined],
    [Arr(Num(0), <<VNum(1), VBool(TRUE), VNum(12)>>, "true") EXCEPT
       !.prefixItems = <<(<<StrNode, [StrNode EXCEPT !.default = Undefined]>>)>>],
    [Arr(Num(0), <<VArr(<<VNum(1)>>), VNum(2)>>, "undefined") EXCEPT
       !.prefixItems = <<(<<Arr(StrNode, <<>>, "false")>>)>>],
    [Arr(Num(0), <<VNum(1)>>, "undefined") EXCEPT !.items = <<>>],
    Arr(Num(0), <<VNum(1), VArr(<<VNum(2)>>)>>, "false"),
    Arr(EnumNode, <<VNum(1)>>, "false"),
    Arr(RefNode(Sa), <<VNum(1), VNum(2)>>, "undefined") }

\* the values of the properties of the generated objects
PropNodes ==
  { Num(1),
    Described(Num(1)),
    Obj(<<Prop(Sq, Described(Num(2)))>>, "undefined"),
    Described(Obj(<<Prop(Sq, Described(Num(2)))>>, "undefined")),
    Described(Arr(Num(0), <<VNum(1), VNum(2)>>, "false")),
    Described(Pat(<<Foo, Xyz>>, <<Prop(<<"o">>, Obj(<<Prop(Sq, Titled(Num(2)))>>, "false"))>>, "undefined")) }

ObjectDocs ==
  { Obj(<<Prop(Sa, x)>>, f) : x \in PropNodes, f \in FoldStyles }
  \cup { Obj(<<Prop(Sa, x), Prop(Sb, y)>>, f) : x \in PropNodes, y \in PropNodes, f \in FoldStyles }

\* the driving examples
DrivingExamples ==
  { VObj(<<Field(Sa, VNum(5))>>),
    VObj(<<Field(Sb, VNum(6))>>),
    VObj(<<Field(Sb, VNull), Field(Sa, VStr(Sa))>>),
    VObj(<<>>),
    VObj(<<Field(Sq, VNum(1))>>) }

ExampleDocs ==
  { WithExample(Obj(<<Prop(Sa, Num(1)), Prop(Sb, Described(StrNode))>>, f), e) :
      f \in FoldStyles, e \in DrivingExamples }
  \cup { WithExample(Obj(<<Prop(Sq, Num(1)), Prop(Sa, Described(Num(1))), Prop(Sb, StrNode)>>, f), e) :
      f \in FoldStyles, e \in DrivingExamples }
  \cup { [Obj(<<Prop(Sa, Num(1))>>, "undefined") EXCEPT !.examples = <<(<<>>)>>],
         WithExample(Obj(<<Prop(Sa, Num(1))>>, "undefined"), VNull),
         WithExample(Obj(<<Prop(Sa, StrNode)>>, "undefined"), VNum(0)),
         [EmptyNode EXCEPT !.type = <<"object">>],
         Obj(<<>>, "true"),
         Obj(<<Prop(Sa, Blank(Num(1)))>>, "undefined") }

PatternSets ==
  { <<Prop(<<"^", "f", "o", "o">>, Num(1)), Prop(<<"o">>, StrNode), Prop(<<"x">>, EnumNode)>>,
    <<Prop(<<"x", "$">>, Obj(<<Prop(Sa, Described(Num(1)))>>, "undefined")),
      Prop(<<"^", "f">>, Arr(Num(0), <<VNum(1)>>, "false"))>>,
    <<Prop(<<"^", "f", ".", "o", "$">>, Num(1)), Prop(<<"o">>, StrNode)>> }

KeyList == <<Xyz, Foo, Fx>>

PatternDocs ==
  { Pat(SubSeq(KeyList, 1, k), ps, f) : k \in 0..MaxKeys, ps \in PatternSets, f \in FoldStyles }
  \cup { [Pat(<<Foo>>, <<>>, "undefined") EXCEPT !.patternProperties = <<>>],
         [Pat(<<Xyz, Foo>>, <<Prop(Foo, Num(1))>>, "undefined") EXCEPT
            !.exampleKeys = <<>>, !._exampleKeys = <<(<<Xyz, Foo>>)>>] }

ReferenceDocs ==
  { Obj(<<Prop(Sa, Described(Num(1))), Prop(Sb, RefNode(Sa))>>, "undefined"),
    Obj(<<Prop(Sa, Described(Obj(<<Prop(Sq, RefNode(Sa))>>, "undefined")))>>, "undefined"),
    Obj(<<Prop(Sa, Num(1)), Prop(Sb, RefNode(Sa)), Prop(Sq, Described(RefNode(Sq))),
          Prop(Foo, RefNode(Xyz))>>, "false"),
    RefNode(Sb) }

\* a number with examples and a default
BothNode == [Num(1) EXCEPT !.default = VNum(7)]

\* a number whose example is an object
ObjectExampleNode == WithExample(Num(1), VObj(<<Field(Sa, VNum(1))>>))

\* nodes that carry a type beside $ref
TypedRefNodes ==
  { [RefNode(Sa) EXCEPT !.type = <<"integer">>],
    [RefNode(Sa) EXCEPT !.type = <<"string">>, !.default = VStr(<<"s">>)],
    [RefNode(Sa) EXCEPT !.typeIsArray = TRUE, !.type = <<"number", "object">>],
    [RefNode(Sa) EXCEPT !.typeIsArray = TRUE, !.type = <<"number", "null">>, !.default = VNull],
    [RefNode(Sa) EXCEPT !.typeIsArray = TRUE] }

\* the nodes on which a render ends with an error, or nearly
ErrorNodes ==
  { NoExampleNode, UnsupportedNode, UnsupportedMixedNode, BothNode, ObjectExampleNode,
    EmptyNode, [EmptyNode EXCEPT !.typeIsArray = TRUE],
    [NoExampleNode EXCEPT !.examples = <<(<<Undefined>>)>>, !.default = VBool(TRUE)],
    [EnumNode EXCEPT !.enum = <<(<<>>)>>],
    [EnumNode EXCEPT !.enum = <<(<<VBool(FALSE)>>)>>],
    [MixedNode EXCEPT !.enum = <<(<<VNull, VNum(2)>>)>>, !.examples = <<>>],
    [EnumNode EXCEPT !.enum = <<(<<VStr(<<"x">>), VArr(<<>>)>>)>>] }
  \cup TypedRefNodes

ErrorDocs ==
  { Obj(<<Prop(Sa, Num(1)), Prop(Sb, x)>>, f) : x \in ErrorNodes, f \in {"undefined", "false"} }
  \cup { Obj(<<Prop(Sa, Described(Obj(<<Prop(Sb, x)>>, "undefined")))>>, "undefined") : x \in ErrorNodes }
  \cup { Obj(<<Prop(Sa, Pat(<<Foo>>, <<Prop(<<"o">>, x)>>, "undefined"))>>, "undefined") : x \in ErrorNodes }
  \cup { Obj(<<Prop(Sa, [Arr(x, <<VNum(1)>>, "undefined") EXCEPT !.prefixItems = <<(<<StrNode>>)>>]),
                Prop(Sb, Arr(x, <<VNum(1), Undefined>>, "undefined"))>>, "undefined") :
            x \in ErrorNodes }
  \cup { WithExample(Obj(<<Prop(Sa, x)>>, "undefined"), e) :
            x \in {NoExampleNode, BothNode}, e \in {VNum(0), VObj(<<Field(Sa, VNull)>>)} }
  \cup ErrorNodes

Docs == Leaves \cup ArrayDocs \cup ArrayVariants \cup ObjectDocs \cup ExampleDocs
          \cup PatternDocs \cup ReferenceDocs \cup ErrorDocs

(***************************************************************************)
(* The state of one render.                                                *)
(***************************************************************************)
VARIABLES
  data,             \* the schema document (the `data` prop)
  skipFirstIndent,  \* the `skipFirstIndent` prop
  sections,         \* the layout buffer
  idSegments,       \* the property-path stack
  indentCount,
  isInlineContext,
  onTokenPush,      \* the armed fold hook, NoHook when null
  isEmpty,          \* isEmpty of each indentedBlock call, by call number
  stack,            \* the calls and loop iterations still to run, innermost first
  status,           \* running, done (process returned) or error (it threw)
  error,            \* the error thrown
  descOpen,         \* history: the described properties in progress, [sec, nested]
  finished,         \* history: the described properties whose processing ended
  decisions,        \* history: the fold decision taken in each container, by address
  visited,          \* history: the nodes process was called on, [addr, node]
  ntok,             \* history: the number of tokens pushed to a line
  nnl               \* history: the number of calls of startNewLine

vars ==
  <<data, skipFirstIndent, sections, idSegments, indentCount, isInlineContext,
    onTokenPush, isEmpty, stack, status, error, descOpen, finished, decisions,
    visited, ntok, nnl>>

\* the render context the closures of JsonDoc share, for the token pushed
\* on behalf of the node at addr
Ctx(addr, role, fold) ==
  [sections |-> sections, idSegments |-> idSegments, indentCount |-> indentCount,
   isInlineContext |-> isInlineContext, onTokenPush |-> onTokenPush,
   isEmpty |-> isEmpty, error |-> NoError, descOpen |-> descOpen,
   decisions |-> decisions, ntok |-> ntok, nnl |-> nnl,
   g |-> [addr |-> addr, role |-> role, fold |-> fold]]

\* the context c becomes the state; the frames `next` replace the top frame
\* (cc binds the value of c, which is then computed once)
Commit(c, next) ==
  \E cc \in {c} :
    /\ sections' = cc.sections
    /\ idSegments' = cc.idSegments
    /\ indentCount' = cc.indentCount
    /\ isInlineContext' = cc.isInlineContext
    /\ onTokenPush' = cc.onTokenPush
    /\ isEmpty' = cc.isEmpty
    /\ descOpen' = cc.descOpen
    /\ decisions' = cc.decisions
    /\ ntok' = cc.ntok
    /\ nnl' = cc.nnl
    /\ error' = cc.error
    /\ IF cc.error.kind # ""
       THEN status' = "error" /\ stack' = <<>>
       ELSE status' = status /\ stack' = next \o Tail(stack)
    /\ UNCHANGED <<data, skipFirstIndent>>

\* throw new Error(...): the render ends
Throw(kind, type) ==
  /\ status' = "error"
  /\ error' = [kind |-> kind, type |-> type, path |-> Join(idSegments, <<".">>)]
  /\ stack' = <<>>
  /\ UNCHANGED <<data, skipFirstIndent, sections, idSegments, indentCount,
                 isInlineContext, onTokenPush, isEmpty, descOpen,
                 decisions, ntok, nnl>>

Frame(op, node, addr) ==
  [op |-> op, node |-> node, addr |-> addr, t |-> 0, tok |-> "", str |-> <<>>,
   val |-> Undefined, skipIndent |-> FALSE, blk |-> 0, role |-> ""]

TokFrame(tok, addr, role) == [Frame("tok", EmptyNode, addr) EXCEPT !.tok = tok, !.role = role]

IdentFrame(name, addr, role) == [Frame("ident", EmptyNode, addr) EXCEPT !.str = name, !.role = role]

TypedFrame(val, addr) == [Frame("typed", EmptyNode, addr) EXCEPT !.val = val, !.role = "value"]

ProcessFrame(node, addr, skipIndent) == [Frame("process", node, addr) EXCEPT !.skipIndent = skipIndent]

LoopFrame(op, node, addr, t) == [Frame(op, node, addr) EXCEPT !.t = t]

Running(op) == status = "running" /\ Len(stack) > 0 /\ Head(stack).op = op

Top == Head(stack)

Init ==
  /\ data \in Docs
  /\ skipFirstIndent \in BOOLEAN
  /\ sections = InitialSections
  /\ idSegments = <<>>
  /\ indentCount = 0
  /\ isInlineContext = <<FALSE>>
  /\ onTokenPush = NoHook
  /\ isEmpty = <<>>
  /\ stack = <<ProcessFrame(data, <<>>, skipFirstIndent)>>
  /\ status = "running"
  /\ error = NoError
  /\ descOpen = <<>>
  /\ finished = {}
  /\ decisions = {}
  /\ visited = <<>>
  /\ ntok = 0
  /\ nnl = 0

(***************************************************************************)
(* process(node, {skipIndent}): the type check and the dispatch.           *)
(***************************************************************************)
\* the frames of the enum alternation: pushTyped(enum[0]), then for each further
\* member SPACE, PIPE, SPACE, pushTyped(enum[t])
RECURSIVE EnumFrames(_, _, _)

\* mutant: the pipe is pushed without the spaces around it
EnumFrames_NoSpace(enum, t, addr) ==
  IF t > Len(enum) THEN <<>>
  ELSE <<TokFrame("PIPE", addr, "value"), TypedFrame(enum[t], addr)>>
       \o EnumFrames(enum, t + 1, addr)

EnumFrames(enum, t, addr) ==
  IF t > Len(enum) THEN <<>>
  ELSE <<TokFrame("SPACE", addr, "value"), TokFrame("PIPE", addr, "value"),
         TokFrame("SPACE", addr, "value"), TypedFrame(enum[t], addr)>>
       \o EnumFrames(enum, t + 1, addr)

ScalarTypes == {"null", "number", "boolean", "string", "mixed"}

\* mutant: an absent type is read as `null`
SwitchType_AbsentAsNull(node) ==
  IF node.typeIsArray THEN "mixed"
  ELSE IF Len(node.type) = 0 THEN "null" ELSE node.type[1]

\* the `type` the switch of process reads; "undefined" when node.type is absent
SwitchType(node) ==
  IF node.typeIsArray THEN "mixed"
  ELSE IF Len(node.type) = 0 THEN "undefined" ELSE node.type[1]

Process ==
  /\ Running("process")
  /\ visited' = Append(visited, [addr |-> Top.addr, node |-> Top.node])
  /\ UNCHANGED finished
  /\ LET node == Top.node
         addr == Top.addr
         type == SwitchType(node)
     IN IF node.typeIsArray /\ ~(\A i \in 1..Len(node.type) : node.type[i] \in PushByType)
        THEN Throw("UnsupportedType", node.type)
        ELSE IF type \in ScalarTypes
        THEN IF node.enum = <<>>
             THEN IF ~IsDefined(getExample(node))
                  THEN Throw("MissingExample", <<>>)
                  ELSE Commit(Ctx(addr, "", ""), <<TypedFrame(getExample(node), addr)>>)
             ELSE Commit(Ctx(addr, "", ""),
                    <<TypedFrame(IF Len(node.enum[1]) > 0 THEN node.enum[1][1] ELSE Undefined, addr)>>
                    \o EnumFrames(node.enum[1], 2, addr))
        ELSE IF type = "array"
        THEN Commit(Ctx(addr, "", ""), <<LoopFrame("block", node, addr, 0)>>)
        ELSE IF type = "object"
        THEN IF Top.skipIndent
             THEN Commit(Ctx(addr, "", ""), <<Frame("inject", node, addr)>>)
             ELSE Commit(Ctx(addr, "", ""), <<LoopFrame("block", node, addr, 0)>>)
        ELSE IF IsDefined(node.ref)
        THEN Commit(Ctx(addr, "", ""), <<Frame("ref", node, addr)>>)
        ELSE Throw("UnsupportedType", <<type>>)

(***************************************************************************)
(* indentedBlock(lTok, rTok, foldStyle, fn)                                *)
(***************************************************************************)
\* up to the call of fn: isEmpty = true, pushToken(lTok), the hook is armed
IndentedBlockBegin ==
  /\ Running("block")
  /\ UNCHANGED <<finished, visited>>
  /\ LET node == Top.node
         addr == Top.addr
         isArray == TypeIs(node, "array")
         blk == Len(isEmpty) + 1
         c0 == [Ctx(addr, "own", node.foldStyle) EXCEPT !.isEmpty = Append(@, TRUE)]
         c1 == pushToken(c0, IF isArray THEN "L_BRACKET" ELSE "L_CURLY")
         c2 == [c1 EXCEPT !.onTokenPush =
                  [armed |-> TRUE, foldStyle |-> node.foldStyle, blk |-> blk, addr |-> addr]]
     IN Commit(c2,
          <<IF isArray THEN LoopFrame("arrloop", node, addr, 1) ELSE Frame("inject", node, addr),
            [Frame("blockend", node, addr) EXCEPT !.blk = blk]>>)

\* mutant: the hook is left armed when fn returns
indentedBlockEnd_KeepHook(c, blk, rTok) ==
  LET hasIndent == ~Last(c.isInlineContext)
      c1 == IF ~c.isEmpty[blk]
            THEN [c EXCEPT !.isInlineContext = Front(@),
                           !.indentCount = IF hasIndent THEN @ - 1 ELSE @]
            ELSE c
  IN pushToken(c1, rTok)

\* mutant: the counter is decremented for an inline entry too
indentedBlockEnd_AlwaysDecrement(c, blk, rTok) ==
  LET c0 == [c EXCEPT !.onTokenPush = NoHook]
      c1 == IF ~c0.isEmpty[blk]
            THEN [c0 EXCEPT !.isInlineContext = Front(@), !.indentCount = @ - 1]
            ELSE c0
  IN pushToken(c1, rTok)

\* indentedBlock after fn returned: the hook is disarmed, the context popped,
\* pushToken(rTok)
indentedBlockEnd(c, blk, rTok) ==
  LET c0 == [c EXCEPT !.onTokenPush = NoHook]
      hasIndent == ~Last(c0.isInlineContext)
      c1 == IF ~c0.isEmpty[blk]
            THEN [c0 EXCEPT !.isInlineContext = Front(@),
                            !.indentCount = IF hasIndent THEN @ - 1 ELSE @]
            ELSE c0
  IN pushToken(c1, rTok)

IndentedBlockEnd ==
  /\ Running("blockend")
  /\ UNCHANGED <<finished, visited>>
  /\ Commit(indentedBlockEnd(Ctx(Top.addr, "own", ""), Top.blk,
                             IF TypeIs(Top.node, "array") THEN "R_BRACKET" ELSE "R_CURLY"),
            <<>>)

(***************************************************************************)
(* The array case of process.                                              *)
(***************************************************************************)
\* node.exampleItems ?? node._exampleItems ?? node.default ?? []
ExampleItems(node) ==
  ItemsOf(Coalesce(node.exampleItems,
            Coalesce(node._exampleItems, Coalesce(node.default, VArr(<<>>)))))

\* the head of iteration t (from 1) of the loop over the example items
ArrayLoop ==
  /\ Running("arrloop")
  /\ UNCHANGED <<finished, visited>>
  /\ LET node == Top.node
         t == Top.t
         child == Append(Top.addr, t)
         usePrefix == node.prefixItems # <<>> /\ t <= Len(node.prefixItems[1])
     IN IF t > Len(ExampleItems(node))
        THEN Commit(Ctx(Top.addr, "", ""), <<>>)
        ELSE IF ~usePrefix /\ node.items = <<>>
        THEN Throw("TypeError", <<>>)
        ELSE LET itemNode == IF usePrefix THEN node.prefixItems[1][t] ELSE node.items[1]
             IN Commit(Ctx(Top.addr, "", ""),
                  <<ProcessFrame(forwardExample(itemNode, ExampleItems(node)[t]), child, FALSE),
                    LoopFrame("arrsep", node, Top.addr, t),
                    LoopFrame("arrloop", node, Top.addr, t + 1)>>)

\* the separator after item t
ArraySep ==
  /\ Running("arrsep")
  /\ UNCHANGED <<finished, visited>>
  /\ LET child == Append(Top.addr, Top.t)
     IN IF Last(isInlineContext)
        THEN IF Top.t + 1 <= Len(ExampleItems(Top.node))
             THEN Commit(Ctx(Top.addr, "", ""),
                    <<TokFrame("COMMA", child, "sep"), TokFrame("SPACE", child, "sep")>>)
             ELSE Commit(Ctx(Top.addr, "", ""), <<>>)
        ELSE Commit(Ctx(Top.addr, "", ""),
               <<TokFrame("COMMA", child, "sep"), TokFrame("NL", child, "sep")>>)

(***************************************************************************)
(* The object case of process: injectObject.                               *)
(***************************************************************************)
\* node.exampleKeys ?? node._exampleKeys
ExampleKeys(node) ==
  IF node.exampleKeys # <<>> THEN node.exampleKeys ELSE node._exampleKeys

InjectObject ==
  /\ Running("inject")
  /\ UNCHANGED <<finished, visited>>
  /\ LET node == Top.node
     IN IF ExampleKeys(node) # <<>>
        THEN IF node.patternProperties = <<>>
             THEN Throw("ExampleKeysWithoutPatternProperties", <<>>)
             ELSE Commit(Ctx(Top.addr, "", ""), <<LoopFrame("keyloop", node, Top.addr, 1)>>)
        ELSE IF node.properties = <<>>
             THEN Throw("TypeError", <<>>)
             ELSE Commit(Ctx(Top.addr, "", ""), <<LoopFrame("proploop", node, Top.addr, 1)>>)

\* iteration t of the loop over the example keys
KeyLoop ==
  /\ Running("keyloop")
  /\ UNCHANGED <<finished, visited>>
  /\ LET node == Top.node
         t == Top.t
         child == Append(Top.addr, t)
         keys == ExampleKeys(node)[1]
     IN IF t > Len(keys)
        THEN Commit(Ctx(Top.addr, "", ""), <<>>)
        ELSE Commit(Ctx(Top.addr, "", ""),
               <<IdentFrame(keys[t], child, "key"),
                 TokFrame("COLON", child, "key"),
                 TokFrame("SPACE", child, "key"),
                 [Frame("pattern", node, child) EXCEPT !.str = keys[t]],
                 TokFrame("COMMA", child, "sep"),
                 TokFrame("NL", child, "sep"),
                 LoopFrame("keyloop", node, Top.addr, t + 1)>>)

\* the entries of patterns whose pattern matches key
Matching(patterns, key) ==
  {i \in 1..Len(patterns) : RegexMatch(patterns[i].name, key)}

\* mutant: the last matching entry wins
MatchedPattern_Last(patterns, key) ==
  IF Matching(patterns, key) = {} THEN 0
  ELSE CHOOSE i \in Matching(patterns, key) : \A j \in Matching(patterns, key) : j <= i

\* the entry processPattern processes, 0 when it falls back to `error`
MatchedPattern(patterns, key) ==
  IF Matching(patterns, key) = {} THEN 0 ELSE Min(Matching(patterns, key))

ErrorName == <<"e", "r", "r", "o", "r">>

ProcessPattern ==
  /\ Running("pattern")
  /\ UNCHANGED <<finished, visited>>
  /\ LET patterns == Top.node.patternProperties[1]
         m == MatchedPattern(patterns, Top.str)
     IN IF m # 0
        THEN Commit(Ctx(Top.addr, "", ""), <<ProcessFrame(patterns[m].node, Top.addr, FALSE)>>)
        ELSE Commit(Ctx(Top.addr, "", ""), <<IdentFrame(ErrorName, Top.addr, "value")>>)

\* mutant: a falsy example value omits the property too
Omitted_Falsy(node, propertyName) ==
  /\ Truthy(FirstExample(node))
  /\ ~Truthy(GetField(FirstExample(node), propertyName))

\* node.examples?.[0] && typeof node.examples[0][propertyName] === `undefined`
Omitted(node, propertyName) ==
  /\ Truthy(FirstExample(node))
  /\ ~IsDefined(GetField(FirstExample(node), propertyName))

\* the head of iteration t of the loop over the declared properties: the omission
\* test, idSegments.push, startNewSection when the property is described
PropLoop ==
  /\ Running("proploop")
  /\ UNCHANGED <<finished, visited>>
  /\ LET node == Top.node
         t == Top.t
         child == Append(Top.addr, t)
         entries == node.properties[1]
     IN IF t > Len(entries)
        THEN Commit(Ctx(Top.addr, "", ""), <<>>)
        ELSE IF Omitted(node, entries[t].name)
        THEN Commit(Ctx(Top.addr, "", ""), <<LoopFrame("proploop", node, Top.addr, t + 1)>>)
        ELSE LET description == getDescription(entries[t].node)
                 c0 == [Ctx(child, "key", "") EXCEPT !.idSegments = Append(@, entries[t].name)]
                 c1 == IF description # <<>>
                       THEN [startNewSection(c0, <<description>>) EXCEPT
                               !.descOpen =
                                  Append([i \in 1..Len(@) |-> [@[i] EXCEPT !.nested = TRUE]],
                                         [sec |-> Len(c0.sections) + 1, nested |-> FALSE])]
                       ELSE c0
             IN Commit(c1,
                  <<IdentFrame(entries[t].name, child, "key"),
                    TokFrame("COLON", child, "key"),
                    TokFrame("SPACE", child, "key"),
                    LoopFrame("propvalue", node, Top.addr, t),
                    LoopFrame("propsep", node, Top.addr, t),
                    [LoopFrame("propend", node, Top.addr, t) EXCEPT
                       !.skipIndent = description # <<>>],
                    LoopFrame("proploop", node, Top.addr, t + 1)>>)

\* the forwarded example and the recursive call
PropValue ==
  /\ Running("propvalue")
  /\ UNCHANGED <<finished, visited>>
  /\ LET node == Top.node
         entry == node.properties[1][Top.t]
         child == Append(Top.addr, Top.t)
     IN IF node.examples = <<>>
        THEN Commit(Ctx(Top.addr, "", ""), <<ProcessFrame(entry.node, child, FALSE)>>)
        ELSE IF FirstExample(node).k \in {"undefined", "null"}
        THEN Throw("TypeError", <<>>)
        ELSE Commit(Ctx(Top.addr, "", ""),
               <<ProcessFrame(forwardExample(entry.node, GetField(FirstExample(node), entry.name)),
                              child, FALSE)>>)

\* the separator after property t
PropSep ==
  /\ Running("propsep")
  /\ UNCHANGED <<finished, visited>>
  /\ LET child == Append(Top.addr, Top.t)
     IN IF Last(isInlineContext)
        THEN IF Top.t + 1 <= Len(Top.node.properties[1])
             THEN Commit(Ctx(Top.addr, "", ""),
                    <<TokFrame("COMMA", child, "sep"), TokFrame("SPACE", child, "sep")>>)
             ELSE Commit(Ctx(Top.addr, "", ""), <<>>)
        ELSE Commit(Ctx(Top.addr, "", ""),
               <<TokFrame("COMMA", child, "sep"), TokFrame("NL", child, "sep")>>)

\* mutant: the segment of the property is not popped
endProperty_NoPop(c, described) ==
  IF described THEN [closeSection(c) EXCEPT !.descOpen = Front(@)] ELSE c

\* idSegments.pop(), and closeSection() when the property is described
endProperty(c, described) ==
  LET c0 == [c EXCEPT !.idSegments = Front(@)]
  IN IF described THEN [closeSection(c0) EXCEPT !.descOpen = Front(@)] ELSE c0

PropEnd ==
  /\ Running("propend")
  /\ UNCHANGED visited
  /\ LET described == Top.skipIndent
     IN /\ Commit(endProperty(Ctx(Top.addr, "", ""), described), <<>>)
        /\ finished' = IF described THEN finished \cup {Last(descOpen)} ELSE finished

(***************************************************************************)
(* The pushes.                                                             *)
(***************************************************************************)
PushToken ==
  /\ Running("tok")
  /\ UNCHANGED <<finished, visited>>
  /\ Commit(pushToken(Ctx(Top.addr, Top.role, ""), Top.tok), <<>>)

PushIdentifier ==
  /\ Running("ident")
  /\ UNCHANGED <<finished, visited>>
  /\ Commit(pushIdentifier(Ctx(Top.addr, Top.role, ""), Top.str), <<>>)

PushTyped ==
  /\ Running("typed")
  /\ UNCHANGED <<finished, visited>>
  /\ Commit(pushTyped(Ctx(Top.addr, Top.role, ""), Top.val), <<>>)

\* mutant: the target read at line 217 is handed to process
PushReference_Follow ==
  /\ Running("ref")
  /\ UNCHANGED <<finished, visited>>
  /\ LET c == Ctx(Top.addr, "value", "")
         propertyName == ReplaceFirst(StrOf(Top.node.ref), RefPrefix, <<>>)
     IN IF data.properties = <<>>
        THEN Commit([getIndentedLine(triggerPushFn(c, "")) EXCEPT
                       !.error = [NoError EXCEPT !.kind = "TypeError"]], <<>>)
        ELSE Commit(pushReference(c, Top.node),
               IF \E i \in 1..Len(data.properties[1]) : data.properties[1][i].name = propertyName
               THEN <<ProcessFrame(
                        data.properties[1][CHOOSE i \in 1..Len(data.properties[1]) :
                                             data.properties[1][i].name = propertyName].node,
                        Append(Top.addr, 1), FALSE)>>
               ELSE <<>>)

PushReference ==
  /\ Running("ref")
  /\ UNCHANGED <<finished, visited>>
  /\ LET c == Ctx(Top.addr, "value", "")
     IN IF data.properties = <<>>
        \* data.properties[propertyName] with data.properties undefined
        THEN Commit([getIndentedLine(triggerPushFn(c, "")) EXCEPT
                       !.error = [NoError EXCEPT !.kind = "TypeError"]], <<>>)
        ELSE Commit(pushReference(c, Top.node), <<>>)

\* process(data, ...) returned: the buffer is rendered
Finish ==
  /\ status = "running"
  /\ stack = <<>>
  /\ status' = "done"
  /\ UNCHANGED <<data, skipFirstIndent, sections, idSegments, indentCount,
                 isInlineContext, onTokenPush, isEmpty, stack, error, descOpen,
                 finished, decisions, visited, ntok, nnl>>

Next ==
  \/ Process
  \/ IndentedBlockBegin
  \/ IndentedBlockEnd
  \/ ArrayLoop
  \/ ArraySep
  \/ InjectObject
  \/ KeyLoop
  \/ ProcessPattern
  \/ PropLoop
  \/ PropValue
  \/ PropSep
  \/ PropEnd
  \/ PushToken
  \/ PushIdentifier
  \/ PushTyped
  \/ PushReference
  \/ Finish

Spec == Init /\ [][Next]_vars

(***************************************************************************)
(* Reading the layout buffer.                                              *)
(***************************************************************************)
SectionIndexes == 1..Len(sections)

\* the positions <<section, line, token>> of the tokens of the buffer
TokenPositions ==
  UNION { UNION { { <<s, l, k>> : k \in 1..Len(sections[s].lines[l].tokens) } :
                  l \in 1..Len(sections[s].lines) } : s \in SectionIndexes }

TokAt(p) == sections[p[1]].lines[p[2]].tokens[p[3]]

LineOf(p) == <<p[1], p[2]>>

IndentOf(p) == sections[p[1]].lines[p[2]].indent

\* p comes before q in section, line, token order
Precedes(p, q) ==
  \/ p[1] < q[1]
  \/ p[1] = q[1] /\ p[2] < q[2]
  \/ p[1] = q[1] /\ p[2] = q[2] /\ p[3] < q[3]

IsPrefix(a, b) == Len(a) <= Len(b) /\ SubSeq(b, 1, Len(a)) = a

\* the tokens of the node at address a and of everything rendered under it
Subtree(a) == {p \in TokenPositions : IsPrefix(a, TokAt(p).addr)}

LinesOf(a) == {LineOf(p) : p \in Subtree(a)}

\* the rendered children of the container at address a
Children(a) ==
  {TokAt(p).addr[Len(a) + 1] : p \in {q \in Subtree(a) : Len(TokAt(q).addr) > Len(a)}}

\* the opening brackets of the rendered containers
OpeningBrackets ==
  {p \in TokenPositions : TokAt(p).role = "own" /\ TokAt(p).text \in {<<"[">>, <<"{">>}}

ClosingBracketOf(a) ==
  CHOOSE p \in TokenPositions :
    TokAt(p).addr = a /\ TokAt(p).role = "own" /\ TokAt(p).text \in {<<"]">>, <<"}">>}

RECURSIVE Reverse(_)
Reverse(s) == IF Len(s) = 0 THEN <<>> ELSE Append(Reverse(Tail(s)), Head(s))

IsPropEnd(f) == f.op = "propend"

\* the named properties in progress, outermost first: each has its `propend`
\* continuation on the stack
PropertiesInProgress == SelectSeq(Reverse(stack), IsPropEnd)

NameOf(f) == f.node.properties[1][f.t].name

\* the described ones among the first j properties in progress
DescribedAmong(j) == {i \in 1..j : PropertiesInProgress[i].skipIndent}

(***************************************************************************)
(* C1.  After one successful render no two sections of the layout buffer   *)
(* with a non-null id carry the same id, also when described properties    *)
(* are reached several times under the same named path (several example    *)
(* keys, several array items).                                             *)
(***************************************************************************)
C1_UniqueSectionIds ==
  status = "done" =>
    \A i \in SectionIndexes : \A j \in SectionIndexes :
      (i # j /\ sections[i].id # <<>> /\ sections[j].id # <<>>)
        => sections[i].id # sections[j].id

(***************************************************************************)
(* C2.  For every described object property a section is opened whose id   *)
(* is the dot-joined property path at that moment, and every token emitted *)
(* while that property is rendered is stored in that section.              *)
(***************************************************************************)
\* the section of each described property in progress has the path of the
\* properties in progress down to it as id, and a header
C2_SectionOfProperty ==
  status = "running" =>
    /\ Len(descOpen) = Cardinality(DescribedAmong(Len(PropertiesInProgress)))
    /\ \A j \in 1..Len(PropertiesInProgress) :
         PropertiesInProgress[j].skipIndent =>
           LET sec == sections[descOpen[Cardinality(DescribedAmong(j))].sec]
           IN /\ sec.header # <<>>
              /\ sec.id = <<Join([i \in 1..j |-> NameOf(PropertiesInProgress[i])], <<".">>)>>

\* C2 as stated: every token is in the section of every described
\* property that was in progress when it was pushed
C2_AllTokensInSection ==
  /\ C2_SectionOfProperty
  /\ \A p \in TokenPositions :
       \A i \in 1..Len(TokAt(p).owners) : TokAt(p).owners[i] = p[1]

\* C2 amended: every token pushed before a nested described property opened a
\* section of its own is in the section of the property
C2_TokensInSectionUntilNested ==
  /\ C2_SectionOfProperty
  /\ \A p \in TokenPositions : TokAt(p).owner # 0 => TokAt(p).owner = p[1]

\* a described property whose container value is closed inside its section
C2_Witness ==
  /\ status = "done"
  /\ \E p \in TokenPositions :
       /\ TokAt(p).owner = p[1]
       /\ TokAt(p).text = <<"}">>
       /\ sections[p[1]].id = <<Sa>>
       /\ Len(sections[p[1]].lines) > 2

(***************************************************************************)
(* C3.  Once the processing of a described property has finished, the      *)
(* section opened for it has closed = true, at any nesting depth; and      *)
(* closeSection on a header-less last section changes nothing (so no       *)
(* header-less section is ever closed).                                    *)
(***************************************************************************)
HeaderlessNeverClosed ==
  \A s \in SectionIndexes : sections[s].header = <<>> => ~sections[s].closed

\* C3 as stated: the section of every finished described property is closed,
\* and no header-less section is
C3_FinishedIsClosed ==
  /\ \A e \in finished : sections[e.sec].closed
  /\ HeaderlessNeverClosed

\* C3 amended: the section is closed exactly when no described property nested in
\* the value opened a section of its own
C3_FinishedIsClosedUnlessNested ==
  /\ \A e \in finished : sections[e.sec].closed <=> ~e.nested
  /\ HeaderlessNeverClosed

C3_Witness ==
  /\ status = "done"
  /\ \E e1 \in finished : \E e2 \in finished :
       /\ e1.nested /\ ~sections[e1.sec].closed
       /\ ~e2.nested /\ sections[e2.sec].closed /\ e2.sec > e1.sec
  /\ \E s \in SectionIndexes : s > 1 /\ sections[s].header = <<>>

(***************************************************************************)
(* C4.  Once a section is closed it stays closed and its lines and tokens  *)
(* never change; a token push or new-line request made while the last      *)
(* section is closed first appends a fresh section with no header and id   *)
(* null, and the emission goes there.                                      *)
(***************************************************************************)
TokensIn(section) ==
  UNION { { <<l, k>> : k \in 1..Len(section.lines[l].tokens) } : l \in 1..Len(section.lines) }

C4_Step ==
  /\ \A i \in SectionIndexes :
       sections[i].closed => Len(sections') >= i /\ sections'[i] = sections[i]
  /\ ((ntok' # ntok \/ nnl' # nnl) /\ sections[Len(sections)].closed) =>
       /\ Len(sections') = Len(sections) + 1
       /\ LET fresh == sections'[Len(sections')]
          IN /\ fresh.header = <<>>
             /\ fresh.id = <<>>
             /\ ~fresh.closed
             /\ Cardinality(TokensIn(fresh)) = ntok' - ntok
             /\ Len(fresh.lines) = 1

\* C4: every step leaves the closed sections as they are, and a push met by a
\* closed last section goes to a fresh header-less section
C4_ClosedIsFinal == [][C4_Step]_vars

\* a token was pushed while the last section was closed
C4_Witness ==
  \E s \in SectionIndexes :
    /\ s > 1
    /\ sections[s - 1].closed
    /\ sections[s].header = <<>>
    /\ TokensIn(sections[s]) # {}

(***************************************************************************)
(* Reading the buffer in section, line, token order; the nodes visited.    *)
(***************************************************************************)
RECURSIVE ConcatAll(_)
ConcatAll(ss) == IF Len(ss) = 0 THEN <<>> ELSE Head(ss) \o ConcatAll(Tail(ss))

ReadingOrder ==
  ConcatAll([s \in SectionIndexes |->
    ConcatAll([l \in 1..Len(sections[s].lines) |-> sections[s].lines[l].tokens])])

TextsOf(toks) == [i \in 1..Len(toks) |-> toks[i].text]

VisitedAt(a) == {i \in 1..Len(visited) : visited[i].addr = a}

\* the node process was called on at address a
NodeAt(a) == visited[CHOOSE i \in VisitedAt(a) : TRUE].node

IsArrayNode(node) == TypeIs(node, "array")

\* an object rendered from exampleKeys + patternProperties
IsPatternObject(node) == TypeIs(node, "object") /\ ExampleKeys(node) # <<>>

\* an object rendered from its declared properties
IsPropertiesObject(node) ==
  TypeIs(node, "object") /\ ExampleKeys(node) = <<>> /\ node.properties # <<>>

(***************************************************************************)
(* C5.  For every array or object node whose foldStyle is forced to        *)
(* inline, all tokens from its opening to its closing bracket lie on one   *)
(* line, unless a nested child has foldStyle forced to block; for every    *)
(* container shape, with children left to auto-detection.                  *)
(***************************************************************************)
C5_ForcedInlineOneLine ==
  status = "done" =>
    \A p \in OpeningBrackets :
      (/\ TokAt(p).fold = "false"
       /\ ~\E q \in Subtree(TokAt(p).addr) : TokAt(q).fold = "true")
        => \A q \in Subtree(TokAt(p).addr) : LineOf(q) = LineOf(p)

\* C5 amended: an array or properties-object forced to inline lies on one line
\* when its subtree renders no described property and no example key, and
\* every container nested in it folds inline (forced, or auto-detected on an
\* opening bracket) or is empty
C5_ForcedInlineOneLineAmended ==
  status = "done" =>
    \A p \in OpeningBrackets :
      LET a == TokAt(p).addr
      IN (/\ TokAt(p).fold = "false"
          /\ ~IsPatternObject(NodeAt(a))
          /\ \A d \in decisions :
                (IsPrefix(a, d.addr) /\ d.addr # a) => d.inline
          /\ \A v \in 1..Len(visited) :
                (IsPrefix(a, visited[v].addr) /\ IsPatternObject(visited[v].node))
                  => ExampleKeys(visited[v].node)[1] = <<>>
          /\ \A q \in Subtree(a) : TokAt(q).owners = TokAt(p).owners)
           => \A q \in Subtree(a) : LineOf(q) = LineOf(p)

\* a forced-inline container of two containers, on one line
C5_Witness ==
  /\ status = "done"
  /\ \E p \in OpeningBrackets :
       /\ TokAt(p).fold = "false"
       /\ Cardinality(Children(TokAt(p).addr)) >= 2
       /\ \E q \in OpeningBrackets : TokAt(q).addr = Append(TokAt(p).addr, 2)
       /\ \A q \in Subtree(TokAt(p).addr) : LineOf(q) = LineOf(p)

(***************************************************************************)
(* C6.  A non-empty array or object node whose foldStyle is forced to      *)
(* block and that has n rendered children occupies exactly n + 2 lines:    *)
(* the line of the opening bracket, one line per child, the line of the    *)
(* closing bracket; each child line has indent one greater than the line   *)
(* of the closing bracket.                                                 *)
(***************************************************************************)
ForcedBlocks ==
  {p \in OpeningBrackets : TokAt(p).fold = "true" /\ Children(TokAt(p).addr) # {}}

\* C6 as stated: n children give n + 2 lines, each child on one line of its own
C6_BlockLines ==
  status = "done" =>
    \A p \in ForcedBlocks :
      LET a == TokAt(p).addr
      IN /\ Cardinality(LinesOf(a)) = Cardinality(Children(a)) + 2
         /\ \A q \in Subtree(a) :
              Len(TokAt(q).addr) > Len(a) => IndentOf(q) = IndentOf(ClosingBracketOf(a)) + 1

\* the first token of child i of the container at a
FirstOf(a) == CHOOSE p \in Subtree(a) : \A q \in Subtree(a) : q = p \/ Precedes(p, q)

\* C6 amended: the opening bracket's line, then the lines of each child, which it
\* shares with no other child, then the closing bracket's line; that is n + 2
\* lines when every child is rendered on one line; the first line of each child
\* has indent one greater than the line of the closing bracket
C6_BlockLinesOfChildren ==
  status = "done" =>
    \A p \in ForcedBlocks :
      LET a == TokAt(p).addr
          close == ClosingBracketOf(a)
          childLines(i) == LinesOf(Append(a, i))
      IN /\ LineOf(p) # LineOf(close)
         /\ \A i \in Children(a) :
              /\ LineOf(p) \notin childLines(i)
              /\ LineOf(close) \notin childLines(i)
              /\ \A j \in Children(a) : i # j => childLines(i) \cap childLines(j) = {}
              /\ IndentOf(FirstOf(Append(a, i))) = IndentOf(close) + 1
         /\ (\A i \in Children(a) : Cardinality(childLines(i)) = 1)
              => /\ Cardinality(LinesOf(a)) = Cardinality(Children(a)) + 2
                 /\ \A q \in Subtree(a) :
                      Len(TokAt(q).addr) > Len(a) => IndentOf(q) = IndentOf(close) + 1

\* a forced block with two one-line children, and one with a child of several lines
C6_Witness ==
  /\ status = "done"
  /\ \E p \in ForcedBlocks :
       /\ Cardinality(Children(TokAt(p).addr)) >= 2
       /\ Cardinality(LinesOf(TokAt(p).addr)) = Cardinality(Children(TokAt(p).addr)) + 2

Max(S) == CHOOSE x \in S : \A y \in S : x >= y

(***************************************************************************)
(* C7.  In every array and properties-object: in an inline context, the    *)
(* separator comma + space is emitted exactly between two consecutive      *)
(* rendered children and never after the last rendered child (also when    *)
(* trailing declared properties are omitted); in a block context every     *)
(* rendered child is followed by a comma and a line break.                 *)
(***************************************************************************)
SeparatorsOf(a) == {p \in TokenPositions : TokAt(p).addr = a /\ TokAt(p).role = "sep"}

\* C7: inline, a comma and a space between rendered children and none after
\* the last; block, a comma and a line break after every rendered child
C7_Separators ==
  status = "done" =>
    \A d \in decisions :
      (IsArrayNode(NodeAt(d.addr)) \/ IsPropertiesObject(NodeAt(d.addr))) =>
        \A i \in Children(d.addr) :
          LET seps == SeparatorsOf(Append(d.addr, i))
          IN IF d.inline
             THEN IF i = Max(Children(d.addr))
                  THEN seps = {}
                  ELSE \E p \in seps :
                         /\ seps = {p, <<p[1], p[2], p[3] + 1>>}
                         /\ TokAt(p).text = <<",">>
                         /\ TokAt(<<p[1], p[2], p[3] + 1>>).type = "space"
             ELSE \E p \in seps :
                    /\ seps = {p}
                    /\ TokAt(p).text = <<",">>
                    /\ p[3] = Len(sections[p[1]].lines[p[2]].tokens)

(***************************************************************************)
(* C8.  A declared property p of an object node is rendered if and only    *)
(* if the node carries no driving example examples[0] or examples[0]       *)
(* defines p; a skipped property emits no token, opens no section and      *)
(* leaves the property-path stack unchanged; the rendered properties keep  *)
(* their declaration order.                                                *)
(***************************************************************************)
\* the driving example: examples[0], a JSON object
HasDrivingExample(node) ==
  node.examples # <<>> /\ Len(node.examples[1]) > 0 /\ node.examples[1][1].k = "object"

Defines(example, name) == \E i \in 1..Len(example.fields) : example.fields[i].name = name

ToRender(node, name) ==
  ~HasDrivingExample(node) \/ Defines(node.examples[1][1], name)

\* the identifiers of the properties of the object at address a, in reading order
KeysOf(a) ==
  TextsOf(SelectSeq(ReadingOrder,
    LAMBDA t : t.type = "identifier" /\ t.role = "key" /\ Front(t.addr) = a))

C8_Rendered ==
  \A v \in 1..Len(visited) :
    IsPropertiesObject(visited[v].node) =>
      LET node == visited[v].node
          entries == node.properties[1]
          expected == SelectSeq(entries, LAMBDA e : ToRender(node, e.name))
      IN /\ KeysOf(visited[v].addr) = [i \in 1..Len(expected) |-> expected[i].name]
         /\ \A t \in 1..Len(entries) :
              ~ToRender(node, entries[t].name) => Subtree(Append(visited[v].addr, t)) = {}

C8_Step ==
  /\ (Running("proploop") /\ Top.t <= Len(Top.node.properties[1])) =>
       IF ToRender(Top.node, Top.node.properties[1][Top.t].name)
       THEN idSegments' = Append(idSegments, Top.node.properties[1][Top.t].name)
       ELSE /\ sections' = sections
            /\ idSegments' = idSegments
            /\ ntok' = ntok
            /\ status' = "running"
  /\ status' = "done" => C8_Rendered'

IsScalarSchema(node) ==
  /\ node.enum = <<>>
  /\ node.typeIsArray \/ (Len(node.type) = 1 /\ node.type[1] \in PushByType)

HasScalarItems(node) ==
  /\ IsArrayNode(node)
  /\ node.items # <<>> /\ IsScalarSchema(node.items[1])
  /\ node.prefixItems # <<>> =>
       \A i \in 1..Len(node.prefixItems[1]) : IsScalarSchema(node.prefixItems[1][i])

ElementsAsClaimed(node) ==
  IF IsDefined(node.exampleItems) THEN ItemsOf(node.exampleItems)
  ELSE IF IsDefined(node.default) THEN ItemsOf(node.default)
  ELSE <<>>

ElementsAmended(node) ==
  IF IsDefined(node.exampleItems) THEN ItemsOf(node.exampleItems)
  ELSE IF IsDefined(node._exampleItems) THEN ItemsOf(node._exampleItems)
  ELSE IF IsDefined(node.default) THEN ItemsOf(node.default)
  ELSE <<>>

LiteralsOf(a) ==
  TextsOf(SelectSeq(ReadingOrder, LAMBDA t : t.type = "literal" /\ IsPrefix(a, t.addr)))

\* the schema of item i, its examples apart
ItemSchema(node, i) ==
  IF node.prefixItems # <<>> /\ i <= Len(node.prefixItems[1])
  THEN node.prefixItems[1][i] ELSE node.items[1]

ArrayRenders(node, a, elements) ==
  /\ LiteralsOf(a) = [i \in 1..Len(elements) |-> Stringify(elements[i])]
  /\ \A i \in 1..Len(elements) :
       [NodeAt(Append(a, i)) EXCEPT !.examples = <<>>]
         = [ItemSchema(node, i) EXCEPT !.examples = <<>>]

\* C9 as stated: the elements are exampleItems, else default, else none
C9_ExampleItems ==
  status = "done" =>
    \A v \in 1..Len(visited) :
      HasScalarItems(visited[v].node) =>
        ArrayRenders(visited[v].node, visited[v].addr, ElementsAsClaimed(visited[v].node))

\* the value item i is rendered from: the element, and the item schema's own
\* default where the element is undefined
ElementValue(node, elements, i) ==
  IF IsDefined(elements[i]) THEN elements[i] ELSE ItemSchema(node, i).default

ArrayRendersAmended(node, a, elements) ==
  /\ LiteralsOf(a) = [i \in 1..Len(elements) |-> Stringify(ElementValue(node, elements, i))]
  /\ \A i \in 1..Len(elements) :
       [NodeAt(Append(a, i)) EXCEPT !.examples = <<>>]
         = [ItemSchema(node, i) EXCEPT !.examples = <<>>]

\* C9 amended: the elements are exampleItems, else _exampleItems, else default,
\* else none; an element that is undefined is rendered from the default of
\* its item schema
C9_ExampleItemsAmended ==
  status = "done" =>
    \A v \in 1..Len(visited) :
      HasScalarItems(visited[v].node) =>
        ArrayRendersAmended(visited[v].node, visited[v].addr, ElementsAmended(visited[v].node))

\* an array rendered from _exampleItems, and one from exampleItems with prefixItems
C9_Witness ==
  /\ status = "done"
  /\ \E v \in 1..Len(visited) :
       /\ HasScalarItems(visited[v].node)
       /\ Len(LiteralsOf(visited[v].addr)) >= 2
       /\ \/ ~IsDefined(visited[v].node.exampleItems) /\ IsDefined(visited[v].node._exampleItems)
          \/ visited[v].node.prefixItems # <<>>

(***************************************************************************)
(* C10.  In an object rendered from exampleKeys + patternProperties, each  *)
(* key, in exampleKeys order, is rendered with the schema of the first     *)
(* patternProperties entry, in declaration order, whose pattern matches    *)
(* it; when none matches, exactly one identifier token `error` takes the   *)
(* place of the value, no error is raised, and the following keys and the  *)
(* rest of the document are still rendered.                                *)
(***************************************************************************)
IsFirstMatch(patterns, key, m) ==
  /\ RegexMatch(patterns[m].name, key)
  /\ \A j \in 1..(m - 1) : ~RegexMatch(patterns[j].name, key)

NoMatch(patterns, key) == \A j \in 1..Len(patterns) : ~RegexMatch(patterns[j].name, key)

ValuesOf(a) == {p \in TokenPositions : TokAt(p).addr = a /\ TokAt(p).role = "value"}

C10_Rendered ==
  \A v \in 1..Len(visited) :
    IsPatternObject(visited[v].node) =>
      LET a == visited[v].addr
          keys == ExampleKeys(visited[v].node)[1]
          patterns == visited[v].node.patternProperties[1]
      IN /\ KeysOf(a) = keys
         /\ \A i \in 1..Len(keys) :
              IF NoMatch(patterns, keys[i])
              THEN /\ VisitedAt(Append(a, i)) = {}
                   /\ \E p \in Subtree(Append(a, i)) :
                        /\ ValuesOf(Append(a, i)) = {p}
                        /\ TokAt(p).type = "identifier"
                        /\ TokAt(p).text = ErrorName
                        /\ {q \in Subtree(Append(a, i)) : Len(TokAt(q).addr) > Len(a) + 1} = {}
              ELSE \E m \in 1..Len(patterns) :
                     /\ IsFirstMatch(patterns, keys[i], m)
                     /\ Cardinality(VisitedAt(Append(a, i))) = 1
                     /\ NodeAt(Append(a, i)) = patterns[m].node

C10_Step ==
  /\ (Running("pattern") /\ NoMatch(Top.node.patternProperties[1], Top.str)) =>
       status' = "running"
  /\ (status = "running" /\ Len(stack) > 0 /\ Top.op = "ident" /\ Top.str = ErrorName
        /\ Top.role = "value") => status' = "running"
  /\ status' = "done" => C10_Rendered'

\* C10: a key's value is rendered from the first matching pattern, in
\* insertion order, and as the identifier `error` when none matches; the
\* render goes on with the next key
C10_PatternFallback == [][C10_Step]_vars

\* a key with no matching pattern, followed by a key with two matching patterns
C10_Witness ==
  /\ status = "done"
  /\ \E v \in 1..Len(visited) :
       /\ IsPatternObject(visited[v].node)
       /\ LET keys == ExampleKeys(visited[v].node)[1]
              patterns == visited[v].node.patternProperties[1]
          IN \E i \in 1..Len(keys) : \E j \in 1..Len(keys) :
               /\ i < j
               /\ NoMatch(patterns, keys[i])
               /\ ~NoMatch(patterns, keys[j])
  /\ \E v \in 1..Len(visited) :
       /\ IsPatternObject(visited[v].node)
       /\ LET keys == ExampleKeys(visited[v].node)[1]
              patterns == visited[v].node.patternProperties[1]
          IN \E i \in 1..Len(keys) :
               Cardinality({m \in 1..Len(patterns) : RegexMatch(patterns[m].name, keys[i])}) >= 2

(***************************************************************************)
(* C11.  For every node {$ref: `#/properties/<name>`} with <name> a        *)
(* property of the root document, the render emits exactly one             *)
(* cross-reference link whose target anchor is the id of the section       *)
(* rendered for the root property <name>, and no token of that property's  *)
(* subtree at the reference site.                                          *)
(***************************************************************************)
\* the nodes rendered as a reference to a property of the root document
ReferenceSites ==
  {v \in 1..Len(visited) :
     /\ visited[v].node.type = <<>>
     /\ IsDefined(visited[v].node.ref)
     /\ IsPrefix(RefPrefix, StrOf(visited[v].node.ref))
     /\ \E i \in 1..Len(data.properties[1]) :
          RefPrefix \o data.properties[1][i].name = StrOf(visited[v].node.ref)}

RefName(v) == SubSeq(StrOf(visited[v].node.ref), Len(RefPrefix) + 1, Len(StrOf(visited[v].node.ref)))

\* the sections rendered for the root property `name`: those that hold its
\* identifier when it is described
SectionsOfRootProperty(name) ==
  {p[1] : p \in {q \in TokenPositions :
     /\ IsPropertiesObject(data)
     /\ Len(TokAt(q).addr) = 1
     /\ TokAt(q).role = "key"
     /\ TokAt(q).type = "identifier"
     /\ data.properties[1][TokAt(q).addr[1]].name = name
     /\ getDescription(data.properties[1][TokAt(q).addr[1]].node) # <<>>}}

IsPlainScalar(node) ==
  /\ node.enum = <<>>
  /\ IF node.typeIsArray
     THEN \A i \in 1..Len(node.type) : node.type[i] \in {"null", "number", "boolean", "string"}
     ELSE node.type \in {<<"null">>, <<"number">>, <<"boolean">>, <<"string">>}

\* examples[0] when it is defined, otherwise default
ExampleOrDefault(node) ==
  IF Len(node.examples) = 1 /\ Len(node.examples[1]) > 0 /\ node.examples[1][1].k # "undefined"
  THEN node.examples[1][1]
  ELSE node.default

\* the value tokens rendered at address a
ValueTokensAt(a) == {p \in TokenPositions : TokAt(p).addr = a /\ TokAt(p).role = "value"}

C12_Rendered ==
  \A v \in 1..Len(visited) :
    IsPlainScalar(visited[v].node) =>
      /\ Cardinality(ValueTokensAt(visited[v].addr)) = 1
      /\ \A p \in ValueTokensAt(visited[v].addr) :
           /\ TokAt(p).type = "literal"
           /\ TokAt(p).text = Stringify(ExampleOrDefault(visited[v].node))

C12_Step ==
  /\ (Running("process") /\ IsPlainScalar(Top.node)) =>
       IF ExampleOrDefault(Top.node).k = "undefined"
       THEN /\ status' = "error"
            /\ error'.kind = "MissingExample"
            /\ error'.path = Join(idSegments, <<".">>)
            /\ sections' = sections
       ELSE /\ status' = "running"
            /\ Head(stack') = TypedFrame(ExampleOrDefault(Top.node), Top.addr)
  /\ status = "error" => status' = "error"
  /\ status' = "done" => C12_Rendered'

\* C12: the literal of a scalar or mixed node without enumeration is its
\* examples[0], else its default; with neither the render ends with
\* MissingExample and the dot-joined path, and never returns a buffer
C12_ExampleOrDefault == [][C12_Step]_vars

\* a render that used the default of a node whose examples[0] is undefined
C12_DefaultUsed ==
  /\ status = "done"
  /\ \E v \in 1..Len(visited) :
       /\ IsPlainScalar(visited[v].node)
       /\ Len(visited[v].node.examples) = 1
       /\ FirstExample(visited[v].node).k = "undefined"
       /\ ValueTokensAt(visited[v].addr) # {}

\* a render that failed on a node with neither, two named properties deep
C12_Witness ==
  /\ status = "error"
  /\ error.kind = "MissingExample"
  /\ Len(idSegments) >= 2
  /\ \E v \in 1..Len(visited) :
       IsPlainScalar(visited[v].node) /\ ExampleOrDefault(visited[v].node).k = "undefined"

(***************************************************************************)
(* C13.  Processing a node fails with UnsupportedType when, and only       *)
(* when, its type tag is not a recognized kind, or its type array holds a  *)
(* kind other than null/number/boolean/string, or its type is absent, and  *)
(* the node carries no $ref; a node that carries a $ref is never           *)
(* rejected.  The error names the offending type and the property path.    *)
(***************************************************************************)
RecognizedKinds == {"null", "number", "boolean", "string", "array", "object"}

HasUnsupportedKind(node) ==
  node.typeIsArray /\ \E i \in 1..Len(node.type) :
    node.type[i] \notin {"null", "number", "boolean", "string"}

HasUnrecognizedTag(node) ==
  ~node.typeIsArray /\ (node.type = <<>> \/ node.type[1] \notin RecognizedKinds)

FailsUnsupportedType == status' = "error" /\ error'.kind = "UnsupportedType"

\* the type the message holds: the kinds of the type array all together
\* (node.type.join), else the tag, `undefined` when absent
ReportedType(node) ==
  IF node.typeIsArray THEN node.type
  ELSE IF node.type = <<>> THEN <<"undefined">> ELSE node.type

\* C13 as stated: process rejects a node exactly when its type is not
\* recognized and it carries no $ref
C13_Stated_Step ==
  Running("process") =>
    (FailsUnsupportedType <=>
       /\ HasUnsupportedKind(Top.node) \/ HasUnrecognizedTag(Top.node)
       /\ ~IsDefined(Top.node.ref))

C13_Step ==
  /\ Running("process") =>
       /\ FailsUnsupportedType <=>
            \/ HasUnsupportedKind(Top.node)
            \/ HasUnrecognizedTag(Top.node) /\ ~IsDefined(Top.node.ref)
       /\ FailsUnsupportedType =>
            /\ error'.type = ReportedType(Top.node)
            /\ error'.path = Join(idSegments, <<".">>)
  /\ Running("typed") =>
       /\ FailsUnsupportedType <=>
            ValueType(Top.val) \notin {"null", "number", "boolean", "string"}
       /\ FailsUnsupportedType =>
            /\ error'.type = <<ValueType(Top.val)>>
            /\ error'.path = Join(idSegments, <<".">>)
  /\ (status = "running" /\ FailsUnsupportedType) => Running("process") \/ Running("typed")

Headerless == {s \in SectionIndexes : sections[s].header = <<>>}

\* C14 as stated: one header-less section in the rendered buffer
C14_OneHeaderless == status = "done" => Cardinality(Headerless) = 1

\* C14 amended: the first section has no header; a header-less section has id
\* null and is never closed, a section with a header has an id; every further
\* header-less section directly follows a closed section with a header, so
\* there is at most one more of them than there are sections with a header
C14_HeaderlessSections ==
  /\ 1 \in Headerless
  /\ \A s \in SectionIndexes :
       IF s \in Headerless
       THEN /\ sections[s].id = <<>>
            /\ ~sections[s].closed
            /\ s > 1 => (s - 1 \notin Headerless /\ sections[s - 1].closed)
       ELSE sections[s].id # <<>>
  /\ Cardinality(Headerless) <= Cardinality(SectionIndexes \ Headerless) + 1

\* a rendered buffer with three header-less sections
C14_Witness ==
  /\ status = "done"
  /\ Cardinality(Headerless) >= 3
  /\ Cardinality(SectionIndexes \ Headerless) >= 2

(***************************************************************************)
(* The render of the buffer: the indent of a section.                      *)
(***************************************************************************)
\* the lines of a section that hold at least one token
NonEmptyLines(section) == {l \in 1..Len(section.lines) : Len(section.lines[l].tokens) > 0}

\* Math.min(...indents of the non-empty lines); Math.min() of no argument is
\* Infinity: finite is FALSE then
sectionIndent(section) ==
  IF NonEmptyLines(section) = {}
  THEN [finite |-> FALSE, n |-> 0]
  ELSE [finite |-> TRUE, n |-> Min({section.lines[l].indent : l \in NonEmptyLines(section)})]

\* (indent - sectionIndent) of a line, as the margin of the line is computed
marginOf(section, l) ==
  IF sectionIndent(section).finite
  THEN [finite |-> TRUE, n |-> section.lines[l].indent - sectionIndent(section).n]
  ELSE [finite |-> FALSE, n |-> 0]

(***************************************************************************)
(* C15.  For every section of the buffer after a successful render, the    *)
(* initial one included, the section indent (the minimum indent over its   *)
(* lines that hold a token) is a defined finite integer >= 0, and after    *)
(* subtracting it every non-empty line has indent >= 0 and one has 0.      *)
(***************************************************************************)
C15_SectionIndent ==
  status = "done" =>
    \A s \in SectionIndexes :
      /\ sectionIndent(sections[s]).finite
      /\ sectionIndent(sections[s]).n >= 0
      /\ \A l \in NonEmptyLines(sections[s]) :
           marginOf(sections[s], l).finite /\ marginOf(sections[s], l).n >= 0
      /\ \E l \in NonEmptyLines(sections[s]) : marginOf(sections[s], l).n = 0

(***************************************************************************)
(* C16.  For every container without an explicit foldStyle the fold        *)
(* decision is taken exactly once, on the first unit emitted inside it:    *)
(* an opening bracket or brace keeps it inline (no new line, indent        *)
(* counter unchanged); any other first unit starts a new line and raises   *)
(* the indent counter by one before the unit is placed.                    *)
(***************************************************************************)
\* the step pushes a unit while the hook of an auto-detected container is armed
AutoHookArmed ==
  /\ status = "running" /\ Len(stack) > 0
  /\ onTokenPush.armed
  /\ onTokenPush.foldStyle = "undefined"
  /\ Top.op \in {"block", "tok", "ident", "typed", "ref"}
  /\ status' = "running"

\* the unit is the opening bracket of a nested container
FirstUnitIsBracket ==
  \/ Top.op = "block"
  \/ Top.op = "tok" /\ Top.tok \in {"L_BRACKET", "L_CURLY"}

DecidedAddrs == {d.addr : d \in decisions}

C16_Step ==
  /\ AutoHookArmed =>
       /\ onTokenPush.addr \notin DecidedAddrs
       /\ onTokenPush' # onTokenPush
       /\ IF FirstUnitIsBracket
          THEN /\ decisions' = decisions \cup {[addr |-> onTokenPush.addr, inline |-> TRUE]}
               /\ nnl' = nnl
               /\ indentCount' = indentCount
               /\ isInlineContext' = Append(isInlineContext, TRUE)
               /\ Len(sections') = Len(sections)
               /\ Len(sections'[Len(sections')].lines) = Len(sections[Len(sections)].lines)
          ELSE /\ decisions' = decisions \cup {[addr |-> onTokenPush.addr, inline |-> FALSE]}
               /\ nnl' = nnl + 1
               /\ indentCount' = indentCount + 1
               /\ isInlineContext' = Append(isInlineContext, FALSE)
               /\ onTokenPush' = NoHook
               /\ Len(sections') = Len(sections)
               /\ LET old == sections[Len(sections)]
                      new == sections'[Len(sections')]
                  IN /\ Len(new.lines) = Len(old.lines) + 1
                     /\ Len(new.lines[Len(new.lines)].tokens) = 1
                     /\ new.lines[Len(new.lines)].indent = indentCount + 1
  /\ (status = "running" /\ ~onTokenPush.armed) => decisions' = decisions
  /\ status' = "done" =>
       \A p \in OpeningBrackets' :
         (TokAt(p)'.fold = "undefined" /\ Children(TokAt(p).addr)' # {})
           => TokAt(p)'.addr \in DecidedAddrs'

\* C16: the hook of an auto-detected container fires on the first unit pushed
\* inside it and on no other; on a bracket or brace nothing moves, on any
\* other unit a line is started and the indent counter raised before the unit
\* is placed
C16_AutoDetect == [][C16_Step]_vars

\* a render in which auto-detection kept one container inline and folded
\* another to block
C16_Witness ==
  /\ status = "done"
  /\ \E p \in OpeningBrackets, q \in OpeningBrackets :
       /\ TokAt(p).fold = "undefined" /\ TokAt(q).fold = "undefined"
       /\ [addr |-> TokAt(p).addr, inline |-> TRUE] \in decisions
       /\ [addr |-> TokAt(q).addr, inline |-> FALSE] \in decisions

(***************************************************************************)
(* C17.  For every container that emits no child, whatever its foldStyle,  *)
(* the fold hook never fires: the closing bracket is placed on the line    *)
(* of the opening bracket, the indent counter and the inline/block stack   *)
(* are after the container what they were before it, and the armed hook    *)
(* does not survive to fire on a later token.                              *)
(***************************************************************************)
\* the rendered containers that emitted no child
EmptyContainers == {p \in OpeningBrackets : Children(TokAt(p).addr) = {}}

C17_Rendered ==
  \A p \in EmptyContainers :
    /\ TokAt(p).addr \notin DecidedAddrs
    /\ <<p[1], p[2], p[3] + 1>> \in TokenPositions
    /\ TokAt(<<p[1], p[2], p[3] + 1>>).addr = TokAt(p).addr
    /\ TokAt(<<p[1], p[2], p[3] + 1>>).role = "own"
    /\ TokAt(<<p[1], p[2], p[3] + 1>>).text \in {<<"]">>, <<"}">>}

C17_Step ==
  \* from the opening bracket on, as long as the hook stays armed, nothing moves
  /\ (status = "running" /\ onTokenPush.armed /\ status' = "running"
        /\ (onTokenPush' = onTokenPush \/ Running("blockend"))) =>
       /\ indentCount' = indentCount
       /\ isInlineContext' = isInlineContext
       /\ nnl' = nnl
       /\ decisions' = decisions
  \* the container ends with its hook still armed exactly when it is empty,
  \* and the hook is gone after the closing bracket
  /\ Running("blockend") =>
       /\ onTokenPush.armed <=> isEmpty[Top.blk]
       /\ onTokenPush.armed => onTokenPush.addr = Top.addr
       /\ status' = "running" => onTokenPush' = NoHook
  /\ status' = "done" => C17_Rendered'

\* C17: a container that emits no child takes no fold decision; its brackets
\* are next to each other on one line, the indent counter and the inline/block
\* stack do not move while its hook is armed, and the hook is cleared at its end
C17_EmptyContainer == [][C17_Step]_vars

\* a rendered forced-block object whose declared properties were all omitted
C17_Witness ==
  /\ status = "done"
  /\ \E p \in EmptyContainers :
       /\ TokAt(p).fold = "true"
       /\ NodeAt(TokAt(p).addr).properties # <<>>
       /\ Len(NodeAt(TokAt(p).addr).properties[1]) > 0

(***************************************************************************)
(* C18.  For every scalar or mixed node with an enumeration of k >= 1      *)
(* members the render emits exactly the k members as literal tokens in     *)
(* declared order, with exactly k - 1 pipes, each between two spaces and   *)
(* none before the first member; examples and default are not consulted,   *)
(* so no MissingExample is raised when they are absent.                    *)
(***************************************************************************)
\* a node process takes as a scalar or mixed node with an enumeration
IsEnumerated(node) ==
  /\ node.enum # <<>>
  /\ Len(node.enum[1]) >= 1
  /\ IF node.typeIsArray
     THEN \A i \in 1..Len(node.type) : node.type[i] \in {"null", "number", "boolean", "string"}
     ELSE node.type \in {<<"null">>, <<"number">>, <<"boolean">>, <<"string">>}

\* member, then ` | member` for every further member
RECURSIVE Alternation(_)
Alternation(members) ==
  IF Len(members) = 1 THEN <<Stringify(members[1])>>
  ELSE Alternation(Front(members)) \o <<(<<" ">>), (<<"|">>), (<<" ">>), Stringify(Last(members))>>

\* the value tokens rendered at address a, in reading order
ValuesAt(a) == SelectSeq(ReadingOrder, LAMBDA t : t.addr = a /\ t.role = "value")

C18_Rendered ==
  \A v \in 1..Len(visited) :
    IsEnumerated(visited[v].node) =>
      LET toks == ValuesAt(visited[v].addr)
          members == visited[v].node.enum[1]
      IN /\ TextsOf(toks) = Alternation(members)
         /\ \A i \in 1..Len(toks) :
              toks[i].type = (CASE i % 4 = 1 -> "literal"
                                [] i % 4 = 3 -> "syntax"
                                [] OTHER -> "space")
         /\ Cardinality({LineOf(p) : p \in ValueTokensAt(visited[v].addr)}) = 1

C18_Step ==
  /\ (Running("process") /\ IsEnumerated(Top.node)) =>
       /\ status' = "running"
       /\ Head(stack') = TypedFrame(Top.node.enum[1][1], Top.addr)
  /\ (Len(visited) > 0 /\ IsEnumerated(visited[Len(visited)].node)) =>
       error'.kind # "MissingExample"
  /\ status' = "done" => C18_Rendered'

\* C18: the members of the enumeration are rendered in order as
\* `m1 | m2 | ...` on one line, and the node's examples and default play no part
C18_Enumeration == [][C18_Step]_vars

\* a rendered enumeration of three members on a node with neither examples
\* nor default
C18_Witness ==
  /\ status = "done"
  /\ \E v \in 1..Len(visited) :
       /\ IsEnumerated(visited[v].node)
       /\ Len(visited[v].node.enum[1]) = 3
       /\ visited[v].node.examples = <<>>
       /\ ~IsDefined(visited[v].node.default)
       /\ Len(ValuesAt(visited[v].addr)) = 9

(***************************************************************************)
(* C19.  At every point of the traversal idSegments is the sequence of     *)
(* names of the named properties whose processing is in progress,          *)
(* outermost first; every push is matched by a pop when the processing of  *)
(* the property ends, also when the pattern-match fallback is taken and    *)
(* when a missing example ends it; the stack is empty when the render      *)
(* finishes.                                                               *)
(***************************************************************************)
NamesInProgress == [i \in 1..Len(PropertiesInProgress) |-> NameOf(PropertiesInProgress[i])]

\* C19 as stated: the stack holds the names in progress during the traversal
\* and is empty once the render has ended, by a return or by an error
C19_PathStackBalanced ==
  /\ status = "running" => idSegments = NamesInProgress
  /\ status \in {"done", "error"} => idSegments = <<>>

C19_Step ==
  /\ status = "running" => idSegments = NamesInProgress
  /\ status' = "running" => idSegments' = NamesInProgress'
  /\ status' = "done" => idSegments' = <<>>
  \* a throw pops nothing: the stack keeps the path the message names
  /\ (status = "running" /\ status' = "error") =>
       /\ idSegments' = idSegments
       /\ error'.kind \in {"MissingExample", "UnsupportedType", "ExampleKeysWithoutPatternProperties"}
            => error'.path = Join(idSegments', <<".">>)
  \* the fallback of processPattern pushes `error` and goes on with the same stack
  /\ (Running("ident") /\ Top.role = "value") =>
       (status' = "running" /\ idSegments' = idSegments)

\* C19 amended: idSegments is the names of the properties in progress as long
\* as the traversal runs, every push is popped when the property ends by a
\* return (the pattern-match fallback included), and the stack is empty after a
\* successful render; an error pops nothing
C19_PathStack == [][C19_Step]_vars

\* a render ended by a missing example two properties deep, the path still on
\* the stack
C19_Witness ==
  /\ status = "error"
  /\ error.kind = "MissingExample"
  /\ Len(idSegments) = 2
  /\ error.path = Join(idSegments, <<".">>)

(***************************************************************************)
(* C20.  The indent of a line of the layout buffer.  A line is created     *)
(* with indent 0 (startNewLine, startNewSection) and getIndentedLine       *)
(* writes indentCount into it when the line has no token yet, which is     *)
(* when its first token is pushed.  indentCount counts the open containers *)
(* that were block-folded: an inline-folded container, and a container     *)
(* whose hook has not fired yet, add nothing.                              *)
(***************************************************************************)
\* the positions <<section, line>> of the lines of a layout buffer
LinePositions(secs) ==
  UNION {{<<s, l>> : l \in 1..Len(secs[s].lines)} : s \in 1..Len(secs)}

LineAt(secs, p) == secs[p[1]].lines[p[2]]

\* the containers whose indentedBlock call is in progress
OpenContainers(stk) == Cardinality({i \in 1..Len(stk) : stk[i].op = "blockend"})

\* the containers in progress that were block-folded
BlockFolded(ctx) == Cardinality({i \in 2..Len(ctx) : ~ctx[i]})

\* the lines whose first token is pushed by the step
FirstPushed ==
  {p \in LinePositions(sections') :
     /\ Len(LineAt(sections', p).tokens) > 0
     /\ p \in LinePositions(sections) => Len(LineAt(sections, p).tokens) = 0}

\* the nesting depth around the tokens of a step: the bracket that opens or
\* closes a container lies outside of it
DepthOfStep ==
  IF OpenContainers(stack) < OpenContainers(stack')
  THEN OpenContainers(stack) ELSE OpenContainers(stack')

C20_Stated_Step ==
  /\ \A p \in LinePositions(sections) :
       LineAt(sections', p).indent = LineAt(sections, p).indent
  /\ \A p \in FirstPushed : LineAt(sections', p).indent = DepthOfStep

\* C20 as stated: the indent of a line is the number of containers open
\* around its first token, and it is the same in every state from the one
\* where the line is created
C20_IndentAsStated == [][C20_Stated_Step]_vars

C20_Step ==
  /\ indentCount' = BlockFolded(isInlineContext')
  /\ \A p \in FirstPushed : LineAt(sections', p).indent = indentCount'
  /\ \A p \in LinePositions(sections) :
       Len(LineAt(sections, p).tokens) > 0 =>
         LineAt(sections', p).indent = LineAt(sections, p).indent
  /\ \A p \in LinePositions(sections') :
       Len(LineAt(sections', p).tokens) = 0 =>
         \/ LineAt(sections', p).indent = 0
         \* pushReference throws between getIndentedLine and line.push
         \/ /\ status' = "error" /\ error'.kind = "TypeError"
            /\ p = <<Len(sections'), Len(sections'[Len(sections')].lines)>>
            /\ LineAt(sections', p).indent = indentCount'

\* C20: a line has indent 0 until its first token is pushed; that push sets
\* the indent to the indent counter, which is the number of open containers
\* that were block-folded, and from then on the indent of the line never
\* changes; a line without a token keeps indent 0, but for the line on
\* which a reference failed with a TypeError
C20_LineIndent == [][C20_Step]_vars

\* a finished render holds a line at indent 2, a line at indent 1 on which a
\* container opens and goes on with its first unit (an inline-folded
\* container inside a block-folded one), and a line without a token
C20_Witness ==
  /\ status = "done"
  /\ \E p \in LinePositions(sections) :
       /\ LineAt(sections, p).indent = 2
       /\ Len(LineAt(sections, p).tokens) > 0
  /\ \E p \in LinePositions(sections) :
       /\ LineAt(sections, p).indent = 1
       /\ \E i \in 1..(Len(LineAt(sections, p).tokens) - 1) :
            /\ LineAt(sections, p).tokens[i].text \in {<<"[">>, <<"{">>}
            /\ LineAt(sections, p).tokens[i + 1].text \notin {<<"]">>, <<"}">>}
  /\ \E p \in LinePositions(sections) : LineAt(sections, p).tokens = <<>>

(***************************************************************************)
(* C21.  The indent counter and the inline/block stack.  The hook of a     *)
(* container pushes one entry when it fires (lines 131-138), and            *)
(* indentedBlock pops one entry after fn when the hook has fired (lines     *)
(* 145-150); the counter moves with the block entries.                      *)
(***************************************************************************)
\* the containers in progress whose hook has fired, outermost first
DecidedInProgress ==
  SelectSeq(Reverse(stack), LAMBDA f : f.op = "blockend" /\ ~isEmpty[f.blk])

\* the entry the hook of the container at address a has pushed
EntryOf(a) == (CHOOSE d \in decisions : d.addr = a).inline

C21_State ==
  /\ isInlineContext[1] = FALSE
  /\ indentCount = BlockFolded(isInlineContext)
  /\ indentCount >= 0
  /\ status = "running" =>
       Tail(isInlineContext)
         = [i \in 1..Len(DecidedInProgress) |-> EntryOf(DecidedInProgress[i].addr)]
  /\ status = "done" => indentCount = 0 /\ isInlineContext = <<FALSE>>

C21_Step ==
  /\ C21_State /\ C21_State'
  \* a fold decision pushes exactly one entry, and nothing else pushes
  /\ decisions' # decisions =>
       \E d \in decisions' \ decisions :
         /\ decisions' = decisions \cup {d}
         /\ isInlineContext' = Append(isInlineContext, d.inline)
         /\ indentCount' = indentCount + (IF d.inline THEN 0 ELSE 1)
  \* the end of a container whose hook has fired pops its entry
  /\ (Running("blockend") /\ ~isEmpty[Top.blk]) =>
       /\ isInlineContext = Append(isInlineContext', EntryOf(Top.addr))
       /\ indentCount' = indentCount - (IF EntryOf(Top.addr) THEN 0 ELSE 1)
  \* nothing else touches the stack or the counter
  /\ (decisions' = decisions /\ ~(Running("blockend") /\ ~isEmpty[Top.blk])) =>
       isInlineContext' = isInlineContext /\ indentCount' = indentCount

\* C21: the indent counter is the number of block entries above the base
\* entry and is never negative; the entries above the base are those of the
\* containers in progress whose hook has fired, outermost first; each fold
\* decision pushes one entry, the end of that container pops it and
\* decrements the counter iff it was a block entry; a render that returns
\* leaves the counter at 0 and the stack at its base entry
C21_IndentCounter == [][C21_Step]_vars

\* a finished render in which a block-folded container held an inline-folded
\* one and another block-folded one: the stack was three deep, the counter
\* went to 2 and both are back at their initial values
C21_Witness ==
  /\ status = "done"
  /\ indentCount = 0 /\ isInlineContext = <<FALSE>>
  /\ \E d1, d2, d3 \in decisions :
       /\ ~d1.inline /\ d2.inline /\ ~d3.inline
       /\ IsPrefix(d1.addr, d2.addr) /\ d1.addr # d2.addr
       /\ IsPrefix(d1.addr, d3.addr) /\ d1.addr # d3.addr

(***************************************************************************)
(* C22.  Termination.  process is one synchronous call: once the render    *)
(* has started every step of it is taken until it returns or throws, which *)
(* is weak fairness of the next-step relation.  The recursion follows the  *)
(* children of a node only; pushReference reads the target of a $ref (line *)
(* 217) and never hands it to process.                                     *)
(***************************************************************************)
LiveSpec == Init /\ [][Next]_vars /\ WF_vars(Next)

Ended == status \in {"done", "error"}

\* the visited nodes the default case of process takes for references
ReferenceNodes ==
  {v \in 1..Len(visited) :
     /\ ~visited[v].node.typeIsArray
     /\ SwitchType(visited[v].node) \notin ScalarTypes \cup {"array", "object"}
     /\ IsDefined(visited[v].node.ref)}

\* the tokens rendered for the node at address a and under it, the key and
\* the separator its parent renders around it apart
ValueTokens(a) == {p \in Subtree(a) : TokAt(p).role \notin {"key", "sep"}}

\* a reference is a leaf: nothing is visited under it and it renders nothing
\* but its own link
ReferencesAreLeaves ==
  \A v \in ReferenceNodes :
    /\ \A w \in 1..Len(visited) :
         IsPrefix(visited[v].addr, visited[w].addr) => visited[w].addr = visited[v].addr
    /\ \A p \in ValueTokens(visited[v].addr) :
         TokAt(p).addr = visited[v].addr /\ TokAt(p).type = "reference"
    /\ Cardinality({w \in 1..Len(visited) : visited[w].addr = visited[v].addr}) = 1
    /\ Cardinality(ValueTokens(visited[v].addr)) <= 1

\* C22: every render ends, by a return or by an error, and stays ended; in
\* every state a visited $ref node has no visited descendant and at most one
\* token, its link
C22_Termination ==
  /\ <>Ended
  /\ [](Ended => []Ended)
  /\ []ReferencesAreLeaves

\* a finished render that held a reference to an ancestor of the referring
\* node: the root property named by the $ref is the one the node lies under
C22_Witness ==
  /\ status = "done"
  /\ \E v \in ReferenceSites :
       /\ v \in ReferenceNodes
       /\ Len(visited[v].addr) >= 2
       /\ data.properties[1][visited[v].addr[1]].name = RefName(v)
       /\ Cardinality(ValueTokens(visited[v].addr)) = 1

(***************************************************************************)
(* C23.  The brackets of a finished render.  indentedBlock pushes lTok,    *)
(* runs fn and pushes rTok (lines 120-153); every token is appended to the *)
(* last line of the last section, so that the reading order of the buffer  *)
(* is the order of the pushes.                                             *)
(***************************************************************************)
Openers == {<<"[">>, <<"{">>}

Closers == {<<"]">>, <<"}">>}

CloserOf(text) == IF text = <<"[">> THEN <<"]">> ELSE <<"}">>

\* the bracket and brace tokens, in reading order
BracketTokens ==
  SelectSeq(ReadingOrder, LAMBDA t : t.type = "syntax" /\ t.text \in Openers \cup Closers)

\* toks from index i on closes the openers of `open` (innermost last), each
\* with the closer of its kind and of its container, and leaves none open
RECURSIVE Nested(_, _, _)
Nested(toks, i, open) ==
  IF i > Len(toks) THEN open = <<>>
  ELSE IF toks[i].text \in Openers THEN Nested(toks, i + 1, Append(open, toks[i]))
  ELSE /\ open # <<>>
       /\ toks[i].text = CloserOf(Last(open).text)
       /\ toks[i].addr = Last(open).addr
       /\ Nested(toks, i + 1, Front(open))

\* the positions of the tokens with text `text` the container at a pushed itself
OwnTokens(a, text) ==
  {p \in TokenPositions :
     TokAt(p).addr = a /\ TokAt(p).type = "syntax" /\ TokAt(p).text = text}

\* the visited nodes process renders as containers
VisitedContainers ==
  {v \in 1..Len(visited) : SwitchType(visited[v].node) \in {"array", "object"}}

\* the root object rendered without its braces
IsSkippedRoot(v) ==
  visited[v].addr = <<>> /\ skipFirstIndent /\ SwitchType(visited[v].node) = "object"

ContainerBrackets(v) ==
  LET a == visited[v].addr
      lTok == IF SwitchType(visited[v].node) = "array" THEN <<"[">> ELSE <<"{">>
      other == IF SwitchType(visited[v].node) = "array" THEN <<"{">> ELSE <<"[">>
  IN /\ Cardinality(OwnTokens(a, other)) = 0
     /\ Cardinality(OwnTokens(a, CloserOf(other))) = 0
     /\ IF IsSkippedRoot(v)
        THEN OwnTokens(a, lTok) = {} /\ OwnTokens(a, CloserOf(lTok)) = {}
        ELSE /\ Cardinality(OwnTokens(a, lTok)) = 1
             /\ Cardinality(OwnTokens(a, CloserOf(lTok))) = 1
             /\ \A p \in OwnTokens(a, lTok), r \in OwnTokens(a, CloserOf(lTok)) :
                  /\ Precedes(p, r)
                  /\ \A q \in Subtree(a) :
                       Len(TokAt(q).addr) > Len(a) => Precedes(p, q) /\ Precedes(q, r)

\* C23: after a render that returned, the brackets and braces of the buffer,
\* read in section, line and token order, are balanced and properly nested,
\* each closer closing the opener of its own container; every rendered array
\* has one `[` and one `]`, every rendered object one `{` and one `}` (none for
\* a root object under skipFirstIndent), no other node has any, and the
\* tokens of the children lie between the two
C23_BalancedBrackets ==
  status = "done" =>
    /\ Nested(BracketTokens, 1, <<>>)
    /\ \A v \in VisitedContainers : ContainerBrackets(v)
    /\ \A i \in 1..Len(BracketTokens) :
         \E v \in VisitedContainers :
           visited[v].addr = BracketTokens[i].addr /\ ~IsSkippedRoot(v)

\* a finished render of a root object without braces, in which the two
\* braces of an object lie in different sections and enclose another
\* container
C23_Witness ==
  /\ status = "done"
  /\ \E v \in VisitedContainers : IsSkippedRoot(v)
  /\ \E p, q, r \in TokenPositions :
       /\ TokAt(p).type = "syntax" /\ TokAt(p).text = <<"{">>
       /\ TokAt(q).type = "syntax" /\ TokAt(q).text = <<"}">>
       /\ TokAt(q).addr = TokAt(p).addr
       /\ p[1] # q[1]
       /\ TokAt(r).type = "syntax" /\ TokAt(r).text \in Openers
       /\ Precedes(p, r) /\ Precedes(r, q)

=============================================================================
